---- MODULE Spec2Model ----
\* Solar_Module: the sizing calculator of run.py and the plant-analysis formulas
\* of solar.py. Every formula is computed in binary64 arithmetic, rounding to
\* nearest-even after each operation as CPython does, so that results such as
\* int(ac * modules_per_mw) are those of the program and not of exact arithmetic.
EXTENDS Integers, Sequences, FiniteSets, TLC

VARIABLES
    call,        \* the function under evaluation and its arguments as written by the caller
    ret,         \* its outcome: pending, returned (with the value) or raised (with the exception)
    sizing,      \* run.py: the sizing the last completed run of the script shows, if any
    history,     \* run.py: the first evaluation of the script and whether others followed
    config,      \* solar.py: the module's PROJECT_CONFIG dictionary
    all_metrics  \* solar.py: the monthly records computed so far, by month index

vars == <<call, ret, sizing, history, config, all_metrics>>

\* ===========================================================================
\* Python floats are IEEE-754 binary64 values. TLC integers are 32 bits wide, so
\* a mantissa is held as a natural number of arbitrary size: a sequence of
\* base-2^14 limbs, least significant first, without leading zero limbs.
\* ===========================================================================
Base == 2^14
Limbs == Seq(Nat)

Max2(a, b) == IF a >= b THEN a ELSE b
Min2(a, b) == IF a <= b THEN a ELSE b

BNorm[a \in Limbs] ==
    IF a = <<>> THEN a
    ELSE IF a[Len(a)] = 0 THEN BNorm[SubSeq(a, 1, Len(a) - 1)] ELSE a

BFromInt[n \in Nat] == IF n = 0 THEN <<>> ELSE <<n % Base>> \o BFromInt[n \div Base]

BToInt[a \in Limbs] == IF a = <<>> THEN 0 ELSE a[1] + Base * BToInt[Tail(a)]

Limb(a, i) == IF i >= 1 /\ i <= Len(a) THEN a[i] ELSE 0

BCmpFrom[a \in Limbs, b \in Limbs, i \in Nat] ==
    IF i = 0 THEN 0
    ELSE IF Limb(a, i) > Limb(b, i) THEN 1
    ELSE IF Limb(a, i) < Limb(b, i) THEN -1
    ELSE BCmpFrom[a, b, i - 1]

BCmp(a, b) == BCmpFrom[a, b, Max2(Len(a), Len(b))]

BAddFrom[a \in Limbs, b \in Limbs, i \in Nat, carry \in Nat] ==
    IF i > Len(a) /\ i > Len(b)
    THEN IF carry = 0 THEN <<>> ELSE <<carry>>
    ELSE LET t == Limb(a, i) + Limb(b, i) + carry
         IN  <<t % Base>> \o BAddFrom[a, b, i + 1, t \div Base]

BAdd(a, b) == BAddFrom[a, b, 1, 0]

BSubFrom[a \in Limbs, b \in Limbs, i \in Nat, borrow \in Nat] ==
    IF i > Len(a) THEN <<>>
    ELSE LET t == Limb(a, i) - Limb(b, i) - borrow
         IN  IF t < 0 THEN <<t + Base>> \o BSubFrom[a, b, i + 1, 1]
                      ELSE <<t>> \o BSubFrom[a, b, i + 1, 0]

\* a - b for a >= b
BSub(a, b) == BNorm[BSubFrom[a, b, 1, 0]]

BMulSmallFrom[a \in Limbs, k \in Nat, i \in Nat, carry \in Nat] ==
    IF i > Len(a)
    THEN IF carry = 0 THEN <<>> ELSE <<carry>>
    ELSE LET t == a[i] * k + carry
         IN  <<t % Base>> \o BMulSmallFrom[a, k, i + 1, t \div Base]

\* a * k for 0 <= k < Base
BMulSmall(a, k) == IF k = 0 THEN <<>> ELSE BMulSmallFrom[a, k, 1, 0]

BShlLimbs(a, n) == IF a = <<>> THEN a ELSE [j \in 1..n |-> 0] \o a

BMulFrom[a \in Limbs, b \in Limbs, i \in Nat] ==
    IF i > Len(b) THEN <<>>
    ELSE BAdd(BShlLimbs(BMulSmall(a, b[i]), i - 1), BMulFrom[a, b, i + 1])

BMul(a, b) == BMulFrom[a, b, 1]

BitLenInt[n \in Nat] == IF n = 0 THEN 0 ELSE 1 + BitLenInt[n \div 2]

BBitLen(a) == IF a = <<>> THEN 0 ELSE 14 * (Len(a) - 1) + BitLenInt[a[Len(a)]]

\* a * 2^n
BShl(a, n) == BShlLimbs(BMulSmall(a, 2^(n % 14)), n \div 14)

\* floor(a / 2^n)
BShr(a, n) ==
    LET w == n \div 14
        k == n % 14
        t == IF w >= Len(a) THEN <<>> ELSE SubSeq(a, w + 1, Len(a))
    IN  BNorm[[i \in 1..Len(t) |-> (t[i] \div 2^k) + (Limb(t, i + 1) % 2^k) * 2^(14 - k)]]

BIsOdd(a) == a # <<>> /\ a[1] % 2 = 1

\* one step of long division by the normalised divisor d (top limb >= Base/2):
\* r < d * Base; the result is <<q, r - q*d>> with q = floor(r / d)
BFix[r \in Limbs, d \in Limbs, q \in Nat, p \in Limbs] ==
    IF BCmp(p, r) > 0 THEN BFix[r, d, q - 1, BSub(p, d)]
    ELSE <<q, BSub(r, p)>>

BDivStep(r, d) ==
    LET n  == Len(d)
        hi == Limb(r, n + 1) * Base + Limb(r, n)
        q0 == Min2(Base - 1, hi \div d[n])
    IN  BFix[r, d, q0, BMulSmall(d, q0)]

\* long division of a by the normalised divisor d, limbs of a from the top:
\* the result is <<quotient, remainder>>
BDivFrom[a \in Limbs, d \in Limbs, i \in Nat, q \in Limbs, r \in Limbs] ==
    IF i = 0 THEN <<BNorm[q], r>>
    ELSE LET s == BDivStep(BNorm[<<a[i]>> \o r], d)
         IN  BDivFrom[a, d, i - 1, <<s[1]>> \o q, s[2]]

BUnshift(res, sh) == <<res[1], BShr(res[2], sh)>>
BDivNormalised(a, d, sh) == BUnshift(BDivFrom[a, d, Len(a), <<>>, <<>>], sh)
BDivShift(a, b, sh) == BDivNormalised(BShl(a, sh), BShl(b, sh), sh)
\* <<floor(a / b), a mod b>> for b > 0
BDivMod(a, b) == BDivShift(a, b, 14 - BitLenInt[b[Len(b)]])

\* ---------------------------------------------------------------------------
\* binary64 values: sign s, 53-bit mantissa m, exponent e.
\* Infinities, NaN and subnormals are outside the magnitudes the program handles.
\* ---------------------------------------------------------------------------
\* value = s * m * 2^e with 2^52 <= m < 2^53; zero is s = 0
FZero == [s |-> 0, m |-> <<>>, e |-> 0]

Two53 == <<0, 0, 0, 2^11>>
Two52 == <<0, 0, 0, 2^10>>

\* the binary64 nearest to s * (n + sticky) * 2^e, ties to even; sticky marks a
\* nonzero remainder below the last bit of n
FRenorm(s, q, e) ==
    IF q = Two53 THEN [s |-> s, m |-> Two52, e |-> e + 1]
    ELSE [s |-> s, m |-> q, e |-> e]

\* c compares the bits cut off with one half of the last bit kept
FRoundTie(s, q, e, sticky, c) ==
    FRenorm(s, IF c > 0 \/ (c = 0 /\ (sticky \/ BIsOdd(q))) THEN BAdd(q, <<1>>) ELSE q, e)

FRoundCut(s, n, e, sticky, sh, q) ==
    FRoundTie(s, q, e + sh, sticky, BCmp(BSub(n, BShl(q, sh)), BShl(<<1>>, sh - 1)))

FRoundLen(s, n, e, sticky, len) ==
    IF len <= 53
    THEN [s |-> s, m |-> BShl(n, 53 - len), e |-> e - (53 - len)]
    ELSE FRoundCut(s, n, e, sticky, len - 53, BShr(n, len - 53))

FRound(s, n, e, sticky) ==
    IF n = <<>> THEN FZero ELSE FRoundLen(s, n, e, sticky, BBitLen(n))

\* the binary64 nearest to s * (n / d) * 2^e, for naturals n, d > 0: the quotient
\* is taken to at least 55 bits and the remainder kept as the sticky bit
FRoundQuot(s, qr, e) == FRound(s, qr[1], e, qr[2] # <<>>)
FRoundScaled(s, n, d, e, k) == FRoundQuot(s, BDivMod(BShl(n, k), d), e - k)
FRoundRatio(s, n, d, e) ==
    IF n = <<>> THEN FZero
    ELSE FRoundScaled(s, n, d, e, Max2(0, 56 + BBitLen(d) - BBitLen(n)))

Sgn(n) == IF n > 0 THEN 1 ELSE IF n < 0 THEN -1 ELSE 0
Abs(n) == IF n < 0 THEN -n ELSE n

FFromInt(n) == FRound(Sgn(n), BFromInt[Abs(n)], 0, FALSE)
\* the value of the decimal literal n / d (d a power of ten), and of int / int
FFromRatio(n, d) == FRoundRatio(Sgn(n) * Sgn(d), BFromInt[Abs(n)], BFromInt[Abs(d)], 0)

FNeg(x) == [x EXCEPT !.s = -x.s]

FMul(x, y) ==
    IF x.s = 0 \/ y.s = 0 THEN FZero
    ELSE FRound(x.s * y.s, BMul(x.m, y.m), x.e + y.e, FALSE)

\* y.s # 0: the caller raises ZeroDivisionError otherwise
FDiv(x, y) ==
    IF x.s = 0 THEN FZero
    ELSE FRoundRatio(x.s * y.s, x.m, y.m, x.e - y.e)

\* -1, 0, 1 as |x| <, =, > |y| for nonzero x, y
FCmpMag(x, y) ==
    IF x.e > y.e THEN 1 ELSE IF x.e < y.e THEN -1 ELSE BCmp(x.m, y.m)

FCmp(x, y) ==
    IF x.s # y.s THEN (IF x.s > y.s THEN 1 ELSE -1)
    ELSE IF x.s = 0 THEN 0
    ELSE x.s * FCmpMag(x, y)

FLe(x, y) == FCmp(x, y) <= 0
FLt(x, y) == FCmp(x, y) < 0

\* a, b: the mantissas aligned to the exponent e
FAddAligned(x, y, a, b, e, c) ==
    IF x.s = y.s THEN FRound(x.s, BAdd(a, b), e, FALSE)
    ELSE IF c = 0 THEN FZero
    ELSE IF c > 0 THEN FRound(x.s, BSub(a, b), e, FALSE)
    ELSE FRound(y.s, BSub(b, a), e, FALSE)

FAddAt(x, y, a, b, e) == FAddAligned(x, y, a, b, e, BCmp(a, b))

FAddExp(x, y, e) == FAddAt(x, y, BShl(x.m, x.e - e), BShl(y.m, y.e - e), e)

FAdd(x, y) ==
    IF x.s = 0 THEN y
    ELSE IF y.s = 0 THEN x
    ELSE FAddExp(x, y, Min2(x.e, y.e))

FSub(x, y) == FAdd(x, FNeg(y))

\* |x| = ip + fraction: <<ip, fraction # 0>>, ip an integer below 2^31
FSplitAt(x, q) == <<BToInt[q], BShl(q, 0 - x.e) # x.m>>
FSplit(x) ==
    IF x.s = 0 THEN <<0, FALSE>>
    ELSE IF x.e >= 0 THEN <<BToInt[BShl(x.m, x.e)], FALSE>>
    ELSE FSplitAt(x, BShr(x.m, 0 - x.e))

\* int(x): truncation toward zero
FTrunc(x) == x.s * FSplit(x)[1]
FCeilOf(x, p) == IF x.s > 0 /\ p[2] THEN p[1] + 1 ELSE x.s * p[1]
\* math.ceil(x)
FCeil(x) == FCeilOf(x, FSplit(x))
FFloorOf(x, p) == IF x.s < 0 /\ p[2] THEN 0 - (p[1] + 1) ELSE x.s * p[1]
\* math.floor(x)
FFloor(x) == FFloorOf(x, FSplit(x))

\* max(x, y) of Python: y only when it is greater
FMax(x, y) == IF FLt(x, y) THEN y ELSE x

\* a float literal of the source, and the float operands of a call
D(s, l1, l2, l3, l4, e) == [s |-> s, m |-> <<l1, l2, l3, l4>>, e |-> e]
\* the value Python gives the decimal literal n / d
Lit(n, d) == FFromRatio(n, d)
\* an argument written <<n, d>>: the decimal n / d
Arg(p) == Lit(p[1], p[2])

\* outcomes of a call
Pending == [status |-> "pending", value |-> <<>>]
Returned(v) == [status |-> "returned", value |-> v]
Raised(exc) == [status |-> "raised", value |-> exc]

\* Python's x / y on floats
PyTrueDiv(x, y) ==
    IF y.s = 0 THEN Raised("ZeroDivisionError") ELSE Returned(FDiv(x, y))

\* ===========================================================================
\* run.py: solar PV sizing calculator
\* ===========================================================================
PROJECT_REFERENCE ==
    [ca_pv_ed_ac_capacity    |-> Lit(389, 10),
     ca_pv_ed_dc_capacity    |-> Lit(506, 10),
     ca_pv_ed_modules        |-> 80912,
     ca_pv_ed_module_power   |-> 625,
     ca_pv_ed_area           |-> Lit(712, 10),
     ca_pv_ed_inverters      |-> 12,
     ca_pv_ed_inverter_power |-> 3600,
     dc_ac_ratio             |-> Lit(130, 100),
     gcr                     |-> Lit(5257, 100),
     tilt_angle              |-> Lit(180, 10),
     azimuth_angle           |-> FZero]

\* default arguments of the sizing functions
default_pue == Lit(12, 10)
default_capacity_factor == Lit(20, 100)
default_dc_ac_ratio == Lit(130, 100)
default_modules_per_string == 26
default_transformer_mva == Lit(72, 10)
default_station_capacity_mw == Lit(6485, 1000)

calculate_data_center_total_power(dc_capacity_mw, pue) == FMul(dc_capacity_mw, pue)

\* variant: a zero capacity factor answered with a zero capacity instead of the error
SolarCapacityNeededZeroGuard(total_power_mw, capacity_factor) ==
    IF capacity_factor.s = 0 THEN Returned(FZero)
    ELSE PyTrueDiv(total_power_mw, capacity_factor)

\* an outcome: the division raises ZeroDivisionError on a zero capacity factor
calculate_solar_capacity_needed(total_power_mw, capacity_factor) ==
    PyTrueDiv(total_power_mw, capacity_factor)

calculate_dc_capacity(ac_capacity_mw, dc_ac_ratio) == FMul(ac_capacity_mw, dc_ac_ratio)

\* variants of the module count: scaled by the reference DC capacity, taken on
\* whole megawatts only, and with the division the wrong way round
ModuleCountPerDcMw(ac_capacity_mw) ==
    FTrunc(FMul(ac_capacity_mw,
                FDiv(FFromInt(PROJECT_REFERENCE.ca_pv_ed_modules),
                     PROJECT_REFERENCE.ca_pv_ed_dc_capacity)))

ModuleCountWholeMw(ac_capacity_mw) ==
    FTrunc(FMul(FFromInt(FTrunc(ac_capacity_mw)),
                FDiv(FFromInt(PROJECT_REFERENCE.ca_pv_ed_modules),
                     PROJECT_REFERENCE.ca_pv_ed_ac_capacity)))

ModuleCountInverse(ac_capacity_mw) ==
    FTrunc(FDiv(FDiv(FFromInt(PROJECT_REFERENCE.ca_pv_ed_modules),
                     PROJECT_REFERENCE.ca_pv_ed_ac_capacity),
                ac_capacity_mw))

calculate_module_count(ac_capacity_mw) ==
    LET modules_per_mw == FDiv(FFromInt(PROJECT_REFERENCE.ca_pv_ed_modules),
                               PROJECT_REFERENCE.ca_pv_ed_ac_capacity)
    IN  FTrunc(FMul(ac_capacity_mw, modules_per_mw))

\* <<ha, acres>>
calculate_land_area(ac_capacity_mw) ==
    LET area_per_mw == FDiv(PROJECT_REFERENCE.ca_pv_ed_area,
                            PROJECT_REFERENCE.ca_pv_ed_ac_capacity)
        ha == FMul(ac_capacity_mw, area_per_mw)
    IN  <<ha, FMul(ha, Lit(247105, 100000))>>

calculate_inverter_count(ac_capacity_mw) ==
    LET inverters_per_mw == FDiv(FFromInt(PROJECT_REFERENCE.ca_pv_ed_inverters),
                                 PROJECT_REFERENCE.ca_pv_ed_ac_capacity)
    IN  FCeil(FMul(ac_capacity_mw, inverters_per_mw))

\* <<total_strings, modules_per_string>>; module_count / modules_per_string is the
\* true division of two ints
calculate_string_configuration(module_count, modules_per_string) ==
    <<FCeil(FFromRatio(module_count, modules_per_string)), modules_per_string>>

\* variant: the transformer count rounded down
TransformerCountFloor(ac_capacity_mw, transformer_mva) ==
    FFloor(FDiv(ac_capacity_mw, transformer_mva))

calculate_transformer_count(ac_capacity_mw, transformer_mva) ==
    FCeil(FDiv(ac_capacity_mw, transformer_mva))

\* variant: the station count as the whole part plus one
PowerStationCountPlusOne(ac_capacity_mw, station_capacity_mw) ==
    FTrunc(FDiv(ac_capacity_mw, station_capacity_mw)) + 1

calculate_power_station_count(ac_capacity_mw, station_capacity_mw) ==
    FCeil(FDiv(ac_capacity_mw, station_capacity_mw))

calculate_annual_energy_production(ac_capacity_mw, capacity_factor) ==
    FMul(FMul(ac_capacity_mw, FFromInt(8760)), capacity_factor)

\* the three sidebar sliders: the values each can take, as written decimals
dc_capacity_slider == {<<k, 10>> : k \in {10 + 5 * j : j \in 0..18}}
pue_slider == {<<k, 10>> : k \in 11..15}
capacity_factor_slider == 15..25
slider_defaults == [dc_capacity |-> <<50, 10>>, pue |-> <<12, 10>>, capacity_factor |-> 20]

\* the sections of the script below the key metrics: land, energy, modules,
\* strings, inverters, transformers and power stations
EquipmentSections(total_power, capacity_factor, solar_ac_capacity, land, module_count) ==
    Returned(
      [total_power       |-> total_power,
       solar_ac_capacity |-> solar_ac_capacity,
       solar_dc_capacity |-> calculate_dc_capacity(solar_ac_capacity, default_dc_ac_ratio),
       land_area_ha      |-> land[1],
       land_area_acres   |-> land[2],
       annual_energy     |-> calculate_annual_energy_production(solar_ac_capacity,
                                                                capacity_factor),
       module_count      |-> module_count,
       total_strings     |-> calculate_string_configuration(
                                 module_count, default_modules_per_string)[1],
       inverter_count    |-> calculate_inverter_count(solar_ac_capacity),
       transformer_count |-> calculate_transformer_count(solar_ac_capacity,
                                                         default_transformer_mva),
       station_count     |-> calculate_power_station_count(solar_ac_capacity,
                                                           default_station_capacity_mw)])

\* an exception of the main calculations ends the run
DisplaySections(total_power, capacity_factor, ac) ==
    IF ac.status = "raised" THEN ac
    ELSE EquipmentSections(total_power, capacity_factor, ac.value,
                           calculate_land_area(ac.value),
                           calculate_module_count(ac.value))

MainCalculations(total_power, capacity_factor) ==
    DisplaySections(total_power, capacity_factor,
                    calculate_solar_capacity_needed(total_power, capacity_factor))

\* variant: a run that remembers that other slider values were evaluated before
SolarCalculatorRemembering(sliders) ==
    MainCalculations(
        FAdd(calculate_data_center_total_power(Arg(sliders.dc_capacity), Arg(sliders.pue)),
             IF history.others THEN FFromInt(1) ELSE FZero),
        FFromRatio(sliders.capacity_factor, 100))

\* one run of the script on the slider values: the sizing it computes and shows
create_solar_calculator(sliders) ==
    MainCalculations(
        calculate_data_center_total_power(Arg(sliders.dc_capacity), Arg(sliders.pue)),
        FFromRatio(sliders.capacity_factor, 100))

\* ===========================================================================
\* solar.py: plant analysis formulas
\* ===========================================================================
\* math.radians(x) is x * (pi / 180), the factor being 0.017453292519943295
DegToRad == D(1, 7481, 2378, 13418, 1143, -58)
math_radians(x) == FMul(x, DegToRad)

\* math.sin, math.cos and math.tan are the C library's: their values at the
\* angles the calls below pass, one row <<x, sin(x), cos(x), tan(x)>> per angle x
\* in radians
TrigRows == {
    <<D(-1, 8658, 15564, 6087, 1206, -50),
      D(1, 0, 0, 0, 1024, -52),
      D(-1, 2570, 12922, 5012, 1694, -105),
      D(-1, 2339, 13786, 12527, 1237, 0)>>,
    <<D(-1, 11544, 4368, 8117, 1608, -51),
      D(-1, 7175, 3153, 8803, 1129, -105),
      D(-1, 0, 0, 0, 1024, -52),
      D(1, 7175, 3153, 8803, 1129, -105)>>,
    <<D(-1, 8658, 15564, 6087, 1206, -51),
      D(-1, 15309, 6652, 2534, 1448, -53),
      D(-1, 15308, 6652, 2534, 1448, -53),
      D(1, 1, 0, 0, 1024, -52)>>,
    <<D(-1, 11544, 4368, 8117, 1608, -52),
      D(-1, 0, 0, 0, 1024, -52),
      D(1, 7175, 3153, 8803, 1129, -106),
      D(-1, 3509, 12487, 10599, 1856, 1)>>,
    <<D(-1, 11544, 4368, 8117, 1608, -53),
      D(-1, 15308, 6652, 2534, 1448, -53),
      D(1, 15309, 6652, 2534, 1448, -53),
      D(-1, 16383, 16383, 16383, 2047, -53)>>,
    <<D(-1, 7481, 2378, 13418, 1143, -58),
      D(-1, 7454, 11815, 12466, 1143, -58),
      D(1, 12170, 8150, 11273, 2047, -53),
      D(-1, 9250, 4162, 15321, 1143, -58)>>,
    <<D(-1, 7481, 2378, 13418, 1143, -59),
      D(-1, 3105, 4693, 13180, 1143, -59),
      D(1, 2509, 5735, 15106, 2047, -53),
      D(-1, 1647, 14400, 13893, 1143, -59)>>,
    <<FZero,
      FZero,
      D(1, 0, 0, 0, 1024, -52),
      FZero>>,
    <<D(1, 7481, 2378, 13418, 1143, -59),
      D(1, 3105, 4693, 13180, 1143, -59),
      D(1, 2509, 5735, 15106, 2047, -53),
      D(1, 1647, 14400, 13893, 1143, -59)>>,
    <<D(1, 7481, 2378, 13418, 1143, -58),
      D(1, 7454, 11815, 12466, 1143, -58),
      D(1, 12170, 8150, 11273, 2047, -53),
      D(1, 9250, 4162, 15321, 1143, -58)>>,
    <<D(1, 11222, 3567, 11935, 1715, -58),
      D(1, 2705, 3651, 8724, 1715, -58),
      D(1, 629, 12029, 4885, 2047, -53),
      D(1, 10195, 3093, 1975, 1716, -58)>>,
    <<D(1, 7481, 2378, 13418, 1143, -57),
      D(1, 7207, 10207, 9612, 1143, -57),
      D(1, 1383, 8956, 12327, 2046, -53),
      D(1, 8130, 5976, 4649, 1144, -57)>>,
    <<D(1, 11222, 3567, 11935, 1715, -57),
      D(1, 2318, 9151, 15476, 1714, -57),
      D(1, 9757, 13387, 3166, 2045, -53),
      D(1, 15987, 4252, 4884, 1717, -57)>>,
    <<D(1, 7481, 2378, 13418, 1143, -56),
      D(1, 4392, 13737, 14582, 1142, -56),
      D(1, 16374, 1475, 183, 2043, -53),
      D(1, 12804, 10660, 11155, 1145, -56)>>,
    <<D(1, 1159, 11165, 12676, 1429, -56),
      D(1, 258, 8970, 15723, 1427, -56),
      D(1, 5538, 4192, 3387, 2040, -53),
      D(1, 5601, 4725, 6787, 1433, -56)>>,
    <<D(1, 11222, 3567, 11935, 1715, -56),
      D(1, 5996, 11505, 9737, 1712, -56),
      D(1, 10182, 5089, 12793, 2036, -53),
      D(1, 7576, 5260, 455, 1722, -56)>>,
    <<D(1, 4900, 12354, 11193, 2001, -56),
      D(1, 8915, 12605, 11588, 1996, -56),
      D(1, 16011, 5768, 12034, 2032, -53),
      D(1, 7474, 9760, 11505, 2011, -56)>>,
    <<D(1, 7481, 2378, 13418, 1143, -55),
      D(1, 7705, 6710, 1737, 1140, -55),
      D(1, 5242, 9410, 1130, 2028, -53),
      D(1, 4069, 8601, 5087, 1151, -55)>>,
    <<D(1, 12512, 6771, 13047, 1286, -55),
      D(1, 4981, 7841, 8374, 1281, -55),
      D(1, 9308, 4287, 12873, 2022, -53),
      D(1, 3985, 11975, 7951, 1297, -55)>>,
    <<D(1, 1159, 11165, 12676, 1429, -55),
      D(1, 13193, 14381, 8615, 1422, -55),
      D(1, 7191, 12804, 14520, 2016, -53),
      D(1, 3004, 12055, 7710, 1444, -55)>>,
    <<D(1, 6190, 15558, 12305, 1572, -55),
      D(1, 8783, 13785, 1757, 1563, -55),
      D(1, 14018, 9442, 6102, 2010, -53),
      D(1, 3766, 7543, 5955, 1592, -55)>>,
    <<D(1, 11222, 3567, 11935, 1715, -55),
      D(1, 6390, 12553, 3482, 1703, -55),
      D(1, 128, 2536, 4035, 2003, -53),
      D(1, 9036, 12760, 4314, 1741, -55)>>,
    <<D(1, 5545, 13956, 3557, 1787, -55),
      D(1, 9585, 3800, 1201, 1773, -55),
      D(1, 13494, 16101, 7441, 1999, -53),
      D(1, 9503, 15231, 2009, 1816, -55)>>,
    <<D(1, 16253, 7960, 11564, 1858, -55),
      D(1, 1653, 6967, 13091, 1842, -55),
      D(1, 1807, 1338, 8354, 1995, -53),
      D(1, 5524, 1316, 4460, 1891, -55)>>,
    <<D(1, 4900, 12354, 11193, 2001, -55),
      D(1, 14621, 2962, 13503, 1981, -55),
      D(1, 14885, 15846, 2713, 1987, -53),
      D(1, 8020, 1120, 8110, 2042, -55)>>,
    <<D(1, 13157, 8373, 5411, 1072, -54),
      D(1, 1680, 1612, 2012, 1060, -54),
      D(1, 16149, 7458, 3540, 1978, -53),
      D(1, 3414, 14971, 8517, 1097, -54)>>,
    <<D(1, 7481, 2378, 13418, 1143, -54),
      D(1, 3625, 13514, 173, 1129, -54),
      D(1, 15232, 3449, 10878, 1968, -53),
      D(1, 15138, 1564, 8341, 1174, -54)>>,
    <<D(1, 1805, 12767, 5040, 1215, -54),
      D(1, 5576, 15887, 9084, 1197, -54),
      D(1, 6943, 14831, 8390, 1958, -53),
      D(1, 11099, 11839, 4470, 1252, -54)>>,
    <<D(1, 12512, 6771, 13047, 1286, -54),
      D(1, 10575, 7359, 12019, 1265, -54),
      D(1, 5375, 3345, 12513, 1947, -53),
      D(1, 8622, 11557, 14271, 1330, -54)>>,
    <<D(1, 6836, 776, 4670, 1358, -54),
      D(1, 3548, 3, 8637, 1333, -54),
      D(1, 13515, 12282, 6914, 1936, -53),
      D(1, 5651, 15920, 5994, 1410, -54)>>,
    <<D(1, 1159, 11165, 12676, 1429, -54),
      D(1, 3061, 4648, 14983, 1400, -54),
      D(1, 11548, 2376, 8036, 1924, -53),
      D(1, 724, 15588, 13468, 1490, -54)>>,
    <<D(1, 11867, 5169, 4299, 1501, -54),
      D(1, 4924, 16187, 14337, 1467, -54),
      D(1, 14341, 15358, 15936, 1911, -53),
      D(1, 7430, 5270, 5031, 1572, -54)>>,
    <<D(1, 6190, 15558, 12305, 1572, -54),
      D(1, 5761, 15254, 6366, 1534, -54),
      D(1, 2904, 9823, 14295, 1898, -53),
      D(1, 3392, 688, 14605, 1654, -54)>>,
    <<D(1, 514, 9563, 3928, 1644, -54),
      D(1, 16299, 2659, 7122, 1600, -54),
      D(1, 9839, 8369, 3177, 1885, -53),
      D(1, 8863, 11672, 10630, 1738, -54)>>,
    <<D(1, 15163, 6045, 6712, 1676, -54),
      D(1, 4292, 9460, 16344, 1629, -54),
      D(1, 6448, 4331, 13942, 1878, -53),
      D(1, 2640, 4481, 12171, 1776, -54)>>,
    <<D(1, 11222, 3567, 11935, 1715, -54),
      D(1, 6865, 1048, 16274, 1665, -54),
      D(1, 16277, 15357, 15418, 1870, -53),
      D(1, 2574, 4772, 10759, 1823, -54)>>,
    <<D(1, 5545, 13956, 3557, 1787, -54),
      D(1, 6227, 7390, 727, 1731, -54),
      D(1, 5991, 183, 1939, 1856, -53),
      D(1, 6833, 3494, 16321, 1909, -54)>>,
    <<D(1, 16253, 7960, 11564, 1858, -54),
      D(1, 1480, 11000, 9309, 1795, -54),
      D(1, 14538, 11608, 11963, 1840, -53),
      D(1, 7412, 15637, 12331, 1997, -54)>>,
    <<D(1, 10576, 1965, 3187, 1930, -54),
      D(1, 7680, 11539, 8930, 1859, -54),
      D(1, 11373, 13556, 12801, 1824, -53),
      D(1, 7516, 775, 8325, 1043, -53)>>,
    <<D(1, 4900, 12354, 11193, 2001, -54),
      D(1, 4217, 4241, 15655, 1922, -54),
      D(1, 9992, 15796, 4532, 1808, -53),
      D(1, 16092, 15866, 15415, 1088, -53)>>,
    <<D(1, 7804, 3179, 9600, 1036, -53),
      D(1, 8429, 14270, 12782, 1985, -54),
      D(1, 14790, 8012, 3623, 1791, -53),
      D(1, 14783, 6126, 3685, 1135, -53)>>,
    <<D(1, 13157, 8373, 5411, 1072, -53),
      D(1, 16383, 16383, 16383, 2047, -54),
      D(1, 3243, 8545, 10158, 1773, -53),
      D(1, 13084, 5696, 6772, 1182, -53)>>,
    <<D(1, 2127, 13568, 1222, 1108, -53),
      D(1, 7955, 1015, 13074, 1054, -53),
      D(1, 10974, 14811, 7841, 1755, -53),
      D(1, 12189, 12822, 9216, 1230, -53)>>,
    <<D(1, 7481, 2378, 13418, 1143, -53),
      D(1, 7466, 15027, 4499, 1085, -53),
      D(1, 10565, 2870, 13148, 1736, -53),
      D(1, 9493, 2908, 12000, 1279, -53)>>,
    <<D(1, 12835, 7572, 9229, 1179, -53),
      D(1, 14109, 7617, 6893, 1115, -53),
      D(1, 12252, 8888, 9786, 1717, -53),
      D(1, 5647, 15175, 16166, 1329, -53)>>,
    <<D(1, 1805, 12767, 5040, 1215, -53),
      D(1, 15635, 4167, 3720, 1145, -53),
      D(1, 11940, 13987, 14236, 1697, -53),
      D(1, 1574, 2651, 6446, 1381, -53)>>,
    <<D(1, 7158, 1577, 852, 1251, -53),
      D(1, 2424, 8689, 11215, 1174, -53),
      D(1, 1863, 9302, 10213, 1677, -53),
      D(1, 16250, 3714, 410, 1434, -53)>>,
    <<D(1, 12512, 6771, 13047, 1286, -53),
      D(1, 6750, 4565, 12848, 1203, -53),
      D(1, 13480, 11871, 14201, 1656, -53),
      D(1, 13635, 13943, 15713, 1487, -53)>>,
    <<D(1, 1482, 11966, 8858, 1322, -53),
      D(1, 16054, 4438, 8473, 1232, -53),
      D(1, 14868, 14985, 9920, 1635, -53),
      D(1, 14096, 2170, 4566, 1543, -53)>>,
    <<D(1, 6836, 776, 4670, 1358, -53),
      D(1, 2361, 1783, 14331, 1260, -53),
      D(1, 9169, 4049, 13861, 1613, -53),
      D(1, 3218, 6999, 1195, 1600, -53)>>,
    <<D(1, 12189, 5970, 481, 1394, -53),
      D(1, 15037, 4385, 13896, 1288, -53),
      D(1, 9000, 5206, 9747, 1591, -53),
      D(1, 10294, 4530, 7171, 1658, -53)>>,
    <<D(1, 1159, 11165, 12676, 1429, -53),
      D(1, 5660, 2288, 7029, 1316, -53),
      D(1, 4153, 2877, 14074, 1568, -53),
      D(1, 16157, 8446, 7799, 1718, -53)>>,
    <<D(1, 6513, 16359, 8487, 1465, -53),
      D(1, 4052, 1249, 9976, 1343, -53),
      D(1, 7223, 4740, 10571, 1545, -53),
      D(1, 3345, 12002, 4902, 1780, -53)>>,
    <<D(1, 11867, 5169, 4299, 1501, -53),
      D(1, 3032, 7048, 6217, 1370, -53),
      D(1, 16066, 8398, 15738, 1521, -53),
      D(1, 95, 4537, 450, 1844, -53)>>,
    <<D(1, 837, 10364, 110, 1537, -53),
      D(1, 7211, 9778, 12003, 1396, -53),
      D(1, 10626, 801, 13310, 1497, -53),
      D(1, 7351, 766, 12958, 1909, -53)>>,
    <<D(1, 6190, 15558, 12305, 1572, -53),
      D(1, 13072, 897, 10819, 1422, -53),
      D(1, 3385, 6805, 3406, 1473, -53),
      D(1, 9314, 5364, 11970, 1977, -53)>>,
    <<D(1, 11544, 4368, 8117, 1608, -53),
      D(1, 15308, 6652, 2534, 1448, -53),
      D(1, 15309, 6652, 2534, 1448, -53),
      D(1, 16383, 16383, 16383, 2047, -53)>>,
    <<D(1, 514, 9563, 3928, 1644, -53),
      D(1, 3384, 6805, 3406, 1473, -53),
      D(1, 13072, 897, 10819, 1422, -53),
      D(1, 13358, 12271, 6275, 1060, -52)>>,
    <<D(1, 5868, 14757, 16123, 1679, -53),
      D(1, 10626, 801, 13310, 1497, -53),
      D(1, 7211, 9778, 12003, 1396, -53),
      D(1, 13468, 7859, 1729, 1098, -52)>>,
    <<D(1, 11222, 3567, 11935, 1715, -53),
      D(1, 16066, 8398, 15738, 1521, -53),
      D(1, 3032, 7048, 6217, 1370, -53),
      D(1, 995, 878, 4378, 1137, -52)>>,
    <<D(1, 191, 8762, 7746, 1751, -53),
      D(1, 7223, 4740, 10571, 1545, -53),
      D(1, 4052, 1249, 9976, 1343, -53),
      D(1, 6785, 4055, 16011, 1177, -52)>>,
    <<D(1, 5545, 13956, 3557, 1787, -53),
      D(1, 4153, 2877, 14074, 1568, -53),
      D(1, 5661, 2288, 7029, 1316, -53),
      D(1, 4734, 7237, 5827, 1220, -52)>>,
    <<D(1, 10899, 2766, 15753, 1822, -53),
      D(1, 9000, 5206, 9747, 1591, -53),
      D(1, 15038, 4385, 13896, 1288, -53),
      D(1, 7407, 5455, 8760, 1264, -52)>>,
    <<D(1, 16253, 7960, 11564, 1858, -53),
      D(1, 9170, 4049, 13861, 1613, -53),
      D(1, 2361, 1783, 14331, 1260, -53),
      D(1, 11806, 3779, 10817, 1310, -52)>>,
    <<D(1, 5222, 13155, 7375, 1894, -53),
      D(1, 14868, 14985, 9920, 1635, -53),
      D(1, 16055, 4438, 8473, 1232, -53),
      D(1, 14616, 10059, 14645, 1358, -52)>>,
    <<D(1, 10576, 1965, 3187, 1930, -53),
      D(1, 13480, 11871, 14201, 1656, -53),
      D(1, 6750, 4565, 12848, 1203, -53),
      D(1, 11128, 12750, 6800, 1409, -52)>>,
    <<D(1, 15930, 7159, 15382, 1965, -53),
      D(1, 1863, 9302, 10213, 1677, -53),
      D(1, 2425, 8689, 11215, 1174, -53),
      D(1, 8487, 9651, 6939, 1462, -52)>>,
    <<D(1, 4900, 12354, 11193, 2001, -53),
      D(1, 11941, 13987, 14236, 1697, -53),
      D(1, 15634, 4167, 3720, 1145, -53),
      D(1, 10675, 9861, 2333, 1518, -52)>>,
    <<D(1, 10254, 1164, 7005, 2037, -53),
      D(1, 12252, 8888, 9786, 1717, -53),
      D(1, 14109, 7617, 6893, 1115, -53),
      D(1, 12302, 1781, 13463, 1576, -52)>>,
    <<D(1, 7804, 3179, 9600, 1036, -52),
      D(1, 10565, 2870, 13148, 1736, -53),
      D(1, 7466, 15027, 4499, 1085, -53),
      D(1, 262, 1081, 12166, 1638, -52)>>,
    <<D(1, 10481, 13968, 7505, 1054, -52),
      D(1, 10974, 14811, 7841, 1755, -53),
      D(1, 7955, 1015, 13074, 1054, -53),
      D(1, 5804, 5894, 3640, 1704, -52)>>,
    <<D(1, 13157, 8373, 5411, 1072, -52),
      D(1, 3242, 8545, 10158, 1773, -53),
      D(1, 1, 0, 0, 1024, -53),
      D(1, 3240, 8545, 10158, 1773, -52)>>,
    <<D(1, 15834, 2778, 3317, 1090, -52),
      D(1, 14790, 8012, 3623, 1791, -53),
      D(1, 8430, 14270, 12782, 1985, -54),
      D(1, 499, 14164, 5650, 1847, -52)>>,
    <<D(1, 2127, 13568, 1222, 1108, -52),
      D(1, 9991, 15796, 4532, 1808, -53),
      D(1, 4218, 4241, 15655, 1922, -54),
      D(1, 9618, 2392, 14154, 1925, -52)>>,
    <<D(1, 4804, 7973, 15512, 1125, -52),
      D(1, 11372, 13556, 12801, 1824, -53),
      D(1, 7681, 11539, 8930, 1859, -54),
      D(1, 9200, 6139, 11684, 2009, -52)>>,
    <<D(1, 7481, 2378, 13418, 1143, -52),
      D(1, 14538, 11608, 11963, 1840, -53),
      D(1, 1481, 11000, 9309, 1795, -54),
      D(1, 4583, 3406, 12379, 1049, -51)>>,
    <<D(1, 10158, 13167, 11323, 1161, -52),
      D(1, 5991, 183, 1939, 1856, -53),
      D(1, 6227, 7390, 727, 1731, -54),
      D(1, 4837, 14900, 16179, 1097, -51)>>,
    <<D(1, 12835, 7572, 9229, 1179, -52),
      D(1, 16277, 15357, 15418, 1870, -53),
      D(1, 6865, 1048, 16274, 1665, -54),
      D(1, 370, 817, 15906, 1149, -51)>>,
    <<D(1, 15512, 1977, 7135, 1197, -52),
      D(1, 9839, 8369, 3177, 1885, -53),
      D(1, 16298, 2659, 7122, 1600, -54),
      D(1, 5766, 45, 3218, 1206, -51)>>,
    <<D(1, 1805, 12767, 5040, 1215, -52),
      D(1, 2904, 9823, 14295, 1898, -53),
      D(1, 5760, 15254, 6366, 1534, -54),
      D(1, 13783, 6213, 4005, 1267, -51)>>,
    <<D(1, 4481, 7172, 2946, 1233, -52),
      D(1, 14341, 15358, 15936, 1911, -53),
      D(1, 4926, 16187, 14337, 1467, -54),
      D(1, 14209, 15872, 13198, 1333, -51)>>,
    <<D(1, 7158, 1577, 852, 1251, -52),
      D(1, 11547, 2376, 8036, 1924, -53),
      D(1, 3063, 4648, 14983, 1400, -54),
      D(1, 13015, 993, 11607, 1406, -51)>>,
    <<D(1, 9835, 12366, 15141, 1268, -52),
      D(1, 13514, 12282, 6914, 1936, -53),
      D(1, 3549, 3, 8637, 1333, -54),
      D(1, 12511, 9865, 15662, 1486, -51)>>,
    <<D(1, 12512, 6771, 13047, 1286, -52),
      D(1, 5375, 3345, 12513, 1947, -53),
      D(1, 10576, 7359, 12019, 1265, -54),
      D(1, 6062, 12147, 12680, 1575, -51)>>,
    <<D(1, 15189, 1176, 10953, 1304, -52),
      D(1, 6943, 14831, 8390, 1958, -53),
      D(1, 5576, 15887, 9084, 1197, -54),
      D(1, 10013, 7245, 11084, 1674, -51)>>,
    <<D(1, 1482, 11966, 8858, 1322, -52),
      D(1, 15232, 3449, 10878, 1968, -53),
      D(1, 3625, 13514, 173, 1129, -54),
      D(1, 10345, 11516, 9112, 1785, -51)>>,
    <<D(1, 4159, 6371, 6764, 1340, -52),
      D(1, 16149, 7458, 3540, 1978, -53),
      D(1, 1680, 1612, 2012, 1060, -54),
      D(1, 9814, 4272, 13271, 1910, -51)>>,
    <<D(1, 6836, 776, 4670, 1358, -52),
      D(1, 14885, 15846, 2713, 1987, -53),
      D(1, 14619, 2962, 13503, 1981, -55),
      D(1, 5061, 8399, 12450, 1026, -50)>>,
    <<D(1, 9513, 11565, 2575, 1376, -52),
      D(1, 1807, 1338, 8354, 1995, -53),
      D(1, 1650, 6967, 13091, 1842, -55),
      D(1, 6806, 9591, 14054, 1108, -50)>>,
    <<D(1, 12189, 5970, 481, 1394, -52),
      D(1, 127, 2536, 4035, 2003, -53),
      D(1, 6394, 12553, 3482, 1703, -55),
      D(1, 12936, 14527, 6312, 1204, -50)>>,
    <<D(1, 14866, 375, 14771, 1411, -52),
      D(1, 14018, 9442, 6102, 2010, -53),
      D(1, 8787, 13785, 1757, 1563, -55),
      D(1, 9288, 7985, 95, 1317, -50)>>,
    <<D(1, 1159, 11165, 12676, 1429, -52),
      D(1, 7191, 12804, 14520, 2016, -53),
      D(1, 13196, 14381, 8615, 1422, -55),
      D(1, 8499, 346, 13896, 1451, -50)>>,
    <<D(1, 3836, 5570, 10582, 1447, -52),
      D(1, 9308, 4287, 12873, 2022, -53),
      D(1, 4983, 7841, 8374, 1281, -55),
      D(1, 9769, 3817, 5249, 1616, -50)>>,
    <<D(1, 6513, 16359, 8487, 1465, -52),
      D(1, 5242, 9410, 1130, 2028, -53),
      D(1, 7706, 6710, 1737, 1140, -55),
      D(1, 6886, 11273, 8759, 1821, -50)>>,
    <<D(1, 9190, 10764, 6393, 1483, -52),
      D(1, 16011, 5768, 12034, 2032, -53),
      D(1, 8916, 12605, 11588, 1996, -56),
      D(1, 9214, 6555, 7804, 1042, -49)>>,
    <<D(1, 11867, 5169, 4299, 1501, -52),
      D(1, 10182, 5089, 12793, 2036, -53),
      D(1, 5995, 11505, 9737, 1712, -56),
      D(1, 14536, 7272, 13740, 1217, -49)>>,
    <<D(1, 14544, 15958, 2204, 1519, -52),
      D(1, 5538, 4192, 3387, 2040, -53),
      D(1, 256, 8970, 15723, 1427, -56),
      D(1, 7141, 767, 765, 1463, -49)>>,
    <<D(1, 837, 10364, 110, 1537, -52),
      D(1, 16374, 1475, 183, 2043, -53),
      D(1, 4387, 13737, 14582, 1142, -56),
      D(1, 11604, 13788, 7950, 1830, -49)>>,
    <<D(1, 3513, 4769, 14400, 1554, -52),
      D(1, 9757, 13387, 3166, 2045, -53),
      D(1, 2337, 9151, 15476, 1714, -57),
      D(1, 3160, 16113, 3157, 1221, -48)>>,
    <<D(1, 6190, 15558, 12305, 1572, -52),
      D(1, 1383, 8956, 12327, 2046, -53),
      D(1, 7223, 10207, 9612, 1143, -57),
      D(1, 6211, 15112, 11799, 1832, -48)>>,
    <<D(1, 8867, 9963, 10211, 1590, -52),
      D(1, 12170, 8150, 11273, 2047, -53),
      D(1, 7479, 11815, 12466, 1143, -58),
      D(1, 6729, 6610, 4567, 1833, -47)>>,
    <<D(1, 2014, 7166, 9164, 1599, -52),
      D(1, 2509, 5735, 15106, 2047, -53),
      D(1, 3083, 4693, 13180, 1143, -59),
      D(1, 2836, 1630, 6855, 1833, -46)>>,
    <<D(1, 11544, 4368, 8117, 1608, -52),
      D(1, 0, 0, 0, 1024, -52),
      D(1, 7175, 3153, 8803, 1129, -106),
      D(1, 3509, 12487, 10599, 1856, 1)>>,
    <<D(1, 8658, 15564, 6087, 1206, -51),
      D(1, 15309, 6652, 2534, 1448, -53),
      D(-1, 15308, 6652, 2534, 1448, -53),
      D(-1, 1, 0, 0, 1024, -52)>>,
    <<D(1, 11544, 4368, 8117, 1608, -51),
      D(1, 7175, 3153, 8803, 1129, -105),
      D(-1, 0, 0, 0, 1024, -52),
      D(-1, 7175, 3153, 8803, 1129, -105)>>,
    <<D(1, 8658, 15564, 6087, 1206, -50),
      D(-1, 0, 0, 0, 1024, -52),
      D(-1, 2570, 12922, 5012, 1694, -105),
      D(1, 2339, 13786, 12527, 1237, 0)>>
}

\* the same at the arguments the twelve mid-month solar positions need
MonthlyTrigRows == {
    <<D(-1, 4833, 1497, 13976, 1652, -54),
      D(-1, 16051, 4639, 5893, 1608, -54),
      D(1, 11667, 5708, 8307, 1883, -53),
      D(-1, 63, 200, 13486, 1748, -54)>>,
    <<D(-1, 13508, 3165, 8630, 1520, -54),
      D(-1, 10606, 16155, 13821, 1485, -54),
      D(1, 3726, 6598, 8187, 1908, -53),
      D(-1, 8934, 16088, 7375, 1594, -54)>>,
    <<D(-1, 15023, 11989, 378, 1299, -54),
      D(-1, 9097, 9363, 5837, 1277, -54),
      D(1, 13861, 6853, 14187, 1945, -53),
      D(-1, 7363, 6439, 6583, 1344, -54)>>,
    <<D(-1, 12063, 14479, 5216, 1947, -55),
      D(-1, 7952, 10290, 507, 1929, -55),
      D(1, 7285, 6161, 6715, 1990, -53),
      D(-1, 8909, 8220, 13847, 1984, -55)>>,
    <<D(-1, 2314, 949, 12465, 1212, -55),
      D(-1, 9662, 39, 5501, 1208, -55),
      D(1, 1746, 14217, 9805, 2025, -53),
      D(-1, 14682, 1539, 11452, 1221, -55)>>,
    <<D(-1, 7060, 3701, 11886, 1382, -57),
      D(-1, 14804, 10057, 5163, 1382, -57),
      D(1, 5574, 8688, 2898, 2046, -53),
      D(-1, 14105, 3787, 8958, 1383, -57)>>,
    <<D(1, 1528, 10219, 5791, 1955, -57),
      D(1, 14196, 4431, 3166, 1954, -57),
      D(1, 14739, 16159, 5812, 2044, -53),
      D(1, 7205, 5549, 11103, 1957, -57)>>,
    <<D(1, 1387, 3281, 1912, 1346, -55),
      D(1, 1014, 10486, 1098, 1340, -55),
      D(1, 5264, 13941, 6762, 2020, -53),
      D(1, 11423, 12628, 5974, 1358, -55)>>,
    <<D(1, 8046, 8474, 6517, 1914, -55),
      D(1, 1332, 11295, 337, 1897, -55),
      D(1, 15332, 6748, 5436, 1992, -53),
      D(1, 4546, 14056, 420, 1950, -55)>>,
    <<D(1, 14731, 2848, 7685, 1031, -54),
      D(1, 14057, 12235, 3335, 2041, -55),
      D(1, 1837, 1968, 6642, 1983, -53),
      D(1, 8981, 15971, 13766, 1053, -54)>>,
    <<D(1, 11734, 10760, 8604, 1089, -54),
      D(1, 8569, 16099, 11835, 1076, -54),
      D(1, 7120, 9403, 15949, 1975, -53),
      D(1, 2081, 8714, 15895, 1115, -54)>>,
    <<D(1, 10217, 1936, 472, 1311, -54),
      D(1, 14550, 4310, 12415, 1288, -54),
      D(1, 5122, 6570, 16147, 1943, -53),
      D(1, 13357, 15545, 11693, 1357, -54)>>,
    <<D(1, 10450, 2398, 6709, 1343, -54),
      D(1, 7479, 12831, 7426, 1319, -54),
      D(1, 6960, 5220, 13611, 1938, -53),
      D(1, 5773, 7219, 12245, 1393, -54)>>,
    <<D(1, 6750, 14858, 8026, 1549, -54),
      D(1, 8773, 7209, 13051, 1512, -54),
      D(1, 8599, 14570, 3256, 1903, -53),
      D(1, 9701, 10124, 14660, 1627, -54)>>,
    <<D(1, 11018, 6686, 6434, 1636, -54),
      D(1, 4630, 5351, 3416, 1593, -54),
      D(1, 14115, 3565, 11854, 1886, -53),
      D(1, 6065, 11980, 6478, 1729, -54)>>,
    <<D(1, 7939, 4387, 6077, 1663, -54),
      D(1, 9201, 7390, 450, 1618, -54),
      D(1, 6597, 8701, 7140, 1881, -53),
      D(1, 9750, 1054, 4457, 1761, -54)>>,
    <<D(1, 15892, 5259, 11002, 2003, -54),
      D(1, 13206, 15517, 11646, 1924, -54),
      D(1, 1160, 9632, 13266, 1807, -53),
      D(1, 12450, 9640, 3546, 1090, -53)>>,
    <<D(1, 15252, 8779, 9922, 1218, -53),
      D(1, 4823, 15092, 15723, 1147, -53),
      D(1, 6095, 8279, 369, 1696, -53),
      D(1, 5834, 12513, 3228, 1386, -53)>>,
    <<D(1, 15788, 6577, 3859, 1427, -53),
      D(1, 13895, 6735, 7924, 1314, -53),
      D(1, 14159, 15256, 8016, 1570, -53),
      D(1, 5934, 1847, 2544, 1714, -53)>>,
    <<D(1, 8870, 7783, 9095, 1641, -53),
      D(1, 12230, 1020, 5599, 1471, -53),
      D(1, 12786, 4236, 9671, 1424, -53),
      D(1, 7302, 13570, 9913, 1057, -52)>>,
    <<D(1, 11795, 195, 12460, 1820, -53),
      D(1, 15841, 3957, 3422, 1590, -53),
      D(1, 7062, 13927, 9140, 1290, -53),
      D(1, 13404, 15871, 12445, 1261, -52)>>,
    <<D(1, 2276, 1774, 15809, 1911, -53),
      D(1, 6589, 7605, 1412, 1646, -53),
      D(1, 9118, 1896, 7936, 1218, -53),
      D(1, 11332, 1145, 5760, 1383, -52)>>,
    <<D(1, 9653, 16354, 11971, 1976, -53),
      D(1, 9666, 9586, 12943, 1683, -53),
      D(1, 2203, 13228, 13567, 1165, -53),
      D(1, 8052, 9442, 15557, 1478, -52)>>,
    <<D(1, 3902, 7196, 14507, 1039, -52),
      D(1, 11444, 6989, 4758, 1740, -53),
      D(1, 2515, 1476, 11022, 1079, -53),
      D(1, 7896, 5870, 9065, 1650, -52)>>,
    <<D(1, 8294, 482, 5828, 1068, -52),
      D(1, 6160, 5084, 10356, 1769, -53),
      D(1, 11590, 9659, 14359, 1030, -53),
      D(1, 5214, 12406, 13562, 1757, -52)>>,
    <<D(1, 6808, 11703, 10554, 1317, -50),
      D(-1, 15914, 4992, 9245, 1857, -53),
      D(1, 14730, 1122, 13585, 1724, -54),
      D(-1, 6405, 5675, 13147, 1102, -51)>>,
    <<D(1, 10450, 2411, 13915, 1449, -50),
      D(-1, 15851, 4606, 7847, 1189, -53),
      D(1, 15681, 4742, 2726, 1667, -53),
      D(-1, 15068, 5022, 3172, 1461, -53)>>,
    <<D(1, 14092, 9503, 891, 1582, -50),
      D(-1, 9726, 2763, 3575, 1689, -56),
      D(1, 1680, 6375, 1406, 2037, -53),
      D(-1, 2540, 9515, 4400, 1698, -56)>>,
    <<D(1, 1351, 212, 4252, 1714, -50),
      D(1, 6108, 14176, 8106, 1644, -54),
      D(1, 5509, 16087, 11305, 1875, -53),
      D(1, 12707, 13596, 9273, 1795, -54)>>,
    <<D(1, 4993, 7304, 7612, 1846, -50),
      D(1, 10530, 2303, 3072, 1641, -53),
      D(1, 8070, 13371, 1220, 1225, -53),
      D(1, 822, 8609, 13358, 1371, -52)>>,
    <<D(1, 8634, 14396, 10972, 1978, -50),
      D(1, 4995, 10728, 1164, 2032, -53),
      D(1, 1493, 15794, 7671, 2039, -56),
      D(1, 3093, 11346, 9369, 2040, -50)>>,
    <<D(1, 6138, 10744, 7166, 1055, -49),
      D(1, 6414, 3048, 15522, 1892, -53),
      D(-1, 15491, 15943, 6537, 1563, -54),
      D(-1, 7373, 10656, 13903, 1239, -51)>>,
    <<D(1, 7959, 14290, 8846, 1121, -49),
      D(1, 9702, 4425, 1685, 1260, -53),
      D(-1, 2219, 6408, 7352, 1614, -53),
      D(-1, 13280, 6677, 8134, 1598, -53)>>,
    <<D(1, 9781, 1452, 10527, 1187, -49),
      D(1, 9970, 15643, 6340, 1194, -55),
      D(-1, 11266, 3010, 1892, 2026, -53),
      D(-1, 15277, 2983, 4716, 1207, -55)>>,
    <<D(1, 11601, 4998, 12207, 1253, -49),
      D(-1, 10079, 9215, 9493, 1481, -54),
      D(-1, 12419, 127, 5379, 1909, -53),
      D(1, 958, 10375, 3020, 1589, -54)>>,
    <<D(1, 13423, 8544, 13887, 1319, -49),
      D(-1, 9179, 14318, 15769, 1586, -53),
      D(-1, 11171, 15198, 8974, 1294, -53),
      D(1, 12669, 911, 4963, 1255, -52)>>,
    <<D(1, 15244, 12090, 15567, 1385, -49),
      D(-1, 12017, 2514, 3634, 2019, -53),
      D(-1, 15121, 10380, 7977, 1368, -55),
      D(1, 6704, 10386, 15179, 1510, -50)>>
}

TrigTable == TrigRows \cup MonthlyTrigRows
TrigRow(x) == CHOOSE t \in TrigTable : t[1] = x
math_sin(x) == TrigRow(x)[2]
math_cos(x) == TrigRow(x)[3]
math_tan(x) == TrigRow(x)[4]

\* the plane-of-array irradiance once the sun is above the horizon
TiltedIrradiance(ghi, cos_incidence, dni, cos_tilt) ==
    FMax(FZero,
         FAdd(FMul(dni, cos_incidence),
              FDiv(FMul(FMul(ghi, Lit(1, 10)), FAdd(FFromInt(1), cos_tilt)),
                   FFromInt(2))))

DirectNormal(ghi, cos_incidence, sin_elevation, cos_tilt) ==
    TiltedIrradiance(ghi, cos_incidence,
                     FDiv(FMul(ghi, FMax(FZero, cos_incidence)),
                          FMax(Lit(1, 10), sin_elevation)),
                     cos_tilt)

AngleOfIncidence(ghi, sin_elevation, cos_elevation, sin_tilt, cos_tilt, cos_azimuth) ==
    DirectNormal(ghi,
                 FAdd(FMul(sin_elevation, cos_tilt),
                      FMul(FMul(cos_elevation, sin_tilt), cos_azimuth)),
                 sin_elevation, cos_tilt)

\* variant: the horizon itself counted as daylight
IrradianceStrictHorizon(ghi, tilt_angle, surface_azimuth, solar_elevation, solar_azimuth) ==
    IF FLt(solar_elevation, FZero) THEN FZero
    ELSE AngleOfIncidence(ghi,
                          math_sin(math_radians(solar_elevation)),
                          math_cos(math_radians(solar_elevation)),
                          math_sin(math_radians(tilt_angle)),
                          math_cos(math_radians(tilt_angle)),
                          math_cos(math_radians(FSub(solar_azimuth, surface_azimuth))))

calculate_irradiance_on_tilted_surface(ghi, tilt_angle, surface_azimuth, solar_elevation, solar_azimuth) ==
    IF FLe(solar_elevation, FZero) THEN FZero
    ELSE AngleOfIncidence(ghi,
                          math_sin(math_radians(solar_elevation)),
                          math_cos(math_radians(solar_elevation)),
                          math_sin(math_radians(tilt_angle)),
                          math_cos(math_radians(tilt_angle)),
                          math_cos(math_radians(FSub(solar_azimuth, surface_azimuth))))

ShadingLossPct(shading_factor) ==
    FMul(FSub(FFromInt(1), shading_factor), FFromInt(100))

\* variant: the shading factor not floored at 0
ShadingLossesUnfloored(gcr, solar_elevation) ==
    IF FLe(solar_elevation, FZero) THEN FFromInt(100)
    ELSE ShadingLossPct(
           FSub(FFromInt(1),
                FMul(FDiv(gcr, FFromInt(100)),
                     FDiv(FFromInt(1),
                          math_tan(math_radians(
                              FMax(FFromInt(1), solar_elevation)))))))

calculate_shading_losses(gcr, solar_elevation) ==
    IF FLe(solar_elevation, FZero) THEN FFromInt(100)
    ELSE ShadingLossPct(
           FMax(FZero,
                FSub(FFromInt(1),
                     FMul(FDiv(gcr, FFromInt(100)),
                          FDiv(FFromInt(1),
                               math_tan(math_radians(
                                   FMax(FFromInt(1), solar_elevation))))))))

\* variant: the bands inclusive at their lower end
InverterEfficiencyLowerInclusive(loading_ratio) ==
    IF FLt(loading_ratio, Lit(1, 10)) THEN Lit(85, 100)
    ELSE IF FLt(loading_ratio, Lit(2, 10)) THEN Lit(92, 100)
    ELSE IF FLt(loading_ratio, Lit(5, 10)) THEN Lit(96, 100)
    ELSE IF FLt(loading_ratio, Lit(75, 100)) THEN Lit(98, 100)
    ELSE IF FLt(loading_ratio, Lit(10, 10)) THEN Lit(989, 1000)
    ELSE Lit(985, 1000)

InverterEfficiencyAt(loading_ratio) ==
    IF FLe(loading_ratio, Lit(1, 10)) THEN Lit(85, 100)
    ELSE IF FLe(loading_ratio, Lit(2, 10)) THEN Lit(92, 100)
    ELSE IF FLe(loading_ratio, Lit(5, 10)) THEN Lit(96, 100)
    ELSE IF FLe(loading_ratio, Lit(75, 100)) THEN Lit(98, 100)
    ELSE IF FLe(loading_ratio, Lit(10, 10)) THEN Lit(989, 1000)
    ELSE Lit(985, 1000)

\* an outcome: the division raises ZeroDivisionError on a zero rated power
InverterEfficiencyOf(loading) ==
    IF loading.status = "raised" THEN loading
    ELSE Returned(InverterEfficiencyAt(loading.value))

calculate_inverter_efficiency(dc_power, rated_power) ==
    InverterEfficiencyOf(PyTrueDiv(dc_power, rated_power))

\* -----------------------------------------------------------------------
\* solar.py: the project configuration and the monthly metrics
\* -----------------------------------------------------------------------
PROJECT_CONFIG ==
    [location       |-> [latitude |-> Lit(5349, 100), longitude |-> Lit(-11449, 100),
                         altitude |-> Lit(74226, 100)],
     rated_power_ac |-> Lit(389, 10),
     peak_power_dc  |-> Lit(506, 10),
     dc_ac_ratio    |-> Lit(130, 100),
     total_area     |-> Lit(13004, 100),
     suitable_area  |-> Lit(712, 10),
     pv_modules     |-> [peak_power |-> Lit(6250, 10), quantity |-> 80912,
                         efficiency |-> Lit(2314, 100)],
     inverters      |-> [quantity |-> 12, rated_power |-> Lit(36000, 10),
                         efficiency |-> Lit(9890, 100)],
     tilt_angle     |-> Lit(180, 10),
     azimuth_angle  |-> Lit(0, 10),
     monthly_ghi    |-> <<Lit(281, 10), Lit(518, 10), Lit(1000, 10), Lit(1361, 10),
                          Lit(1721, 10), Lit(1762, 10), Lit(1797, 10), Lit(1518, 10),
                          Lit(1020, 10), Lit(597, 10), Lit(307, 10), Lit(210, 10)>>,
     monthly_temp   |-> <<Lit(-847, 100), Lit(-216, 100), Lit(-569, 100), Lit(217, 100),
                          Lit(1125, 100), Lit(1475, 100), Lit(182, 10), Lit(1598, 100),
                          Lit(103, 10), Lit(313, 100), Lit(-741, 100), Lit(-1295, 100)>>]

\* libm values at the arguments the twelve mid-month solar positions need
AsinRows == {
    <<D(1, 1332, 11295, 337, 1897, -55),
      D(1, 8046, 8474, 6517, 1914, -55)>>,
    <<D(1, 8569, 16099, 11835, 1076, -54),
      D(1, 11734, 10760, 8604, 1089, -54)>>,
    <<D(1, 14550, 4310, 12415, 1288, -54),
      D(1, 10217, 1936, 472, 1311, -54)>>,
    <<D(1, 4630, 5351, 3416, 1593, -54),
      D(1, 11018, 6686, 6434, 1636, -54)>>,
    <<D(1, 13206, 15517, 11646, 1924, -54),
      D(1, 15892, 5259, 11002, 2003, -54)>>,
    <<D(1, 4823, 15092, 15723, 1147, -53),
      D(1, 15252, 8779, 9922, 1218, -53)>>,
    <<D(1, 13895, 6735, 7924, 1314, -53),
      D(1, 15788, 6577, 3859, 1427, -53)>>,
    <<D(1, 12230, 1020, 5599, 1471, -53),
      D(1, 8870, 7783, 9095, 1641, -53)>>,
    <<D(1, 15841, 3957, 3422, 1590, -53),
      D(1, 11795, 195, 12460, 1820, -53)>>,
    <<D(1, 9666, 9586, 12943, 1683, -53),
      D(1, 9653, 16354, 11971, 1976, -53)>>,
    <<D(1, 11444, 6989, 4758, 1740, -53),
      D(1, 3902, 7196, 14507, 1039, -52)>>,
    <<D(1, 6160, 5084, 10356, 1769, -53),
      D(1, 8294, 482, 5828, 1068, -52)>>
}

Atan2Rows == {
    <<FZero,
      D(1, 11902, 9544, 2298, 1122, -53),
      FZero>>,
    <<FZero,
      D(1, 238, 13804, 13394, 1161, -53),
      FZero>>,
    <<FZero,
      D(1, 12266, 11383, 7734, 1231, -53),
      FZero>>,
    <<FZero,
      D(1, 9511, 13534, 9636, 1332, -53),
      FZero>>,
    <<FZero,
      D(1, 3410, 3121, 688, 1444, -53),
      FZero>>,
    <<FZero,
      D(1, 11965, 10101, 4744, 1573, -53),
      FZero>>,
    <<FZero,
      D(1, 13885, 8649, 8743, 1697, -53),
      FZero>>,
    <<FZero,
      D(1, 6750, 11771, 13150, 1827, -53),
      FZero>>,
    <<FZero,
      D(1, 15260, 2953, 5138, 1941, -53),
      FZero>>,
    <<FZero,
      D(1, 1239, 15402, 342, 2046, -53),
      FZero>>,
    <<FZero,
      D(1, 6410, 9033, 3323, 1060, -52),
      FZero>>,
    <<FZero,
      D(1, 14550, 9037, 2693, 1083, -52),
      FZero>>
}

RadToDeg == D(1, 504, 10639, 7617, 1833, -47)
math_degrees(x) == FMul(x, RadToDeg)
math_asin(x) == (CHOOSE t \in AsinRows : t[1] = x)[2]
math_atan2(y, x) == (CHOOSE t \in Atan2Rows : t[1] = y /\ t[2] = x)[3]

\* declination in degrees
SolarDeclination(day_of_year) ==
    FMul(Lit(2345, 100),
         TrigRow(math_radians(FFromRatio(360 * (284 + day_of_year), 365)))[2])

\* <<elevation, azimuth>> in degrees from the rows of the declination, the
\* latitude and the hour angle; a row is <<radians, sin, cos, tan>>
SolarAngles(decl, lat, ha) ==
    <<math_degrees(math_asin(FAdd(FMul(decl[2], lat[2]),
                                  FMul(FMul(decl[3], lat[3]), ha[3])))),
      math_degrees(math_atan2(ha[2],
                              FSub(FMul(ha[3], lat[2]), FMul(decl[4], lat[3]))))>>

calculate_solar_position(day_of_year, latitude, hour) ==
    SolarAngles(TrigRow(math_radians(SolarDeclination(day_of_year))),
                TrigRow(math_radians(latitude)),
                TrigRow(math_radians(FFromInt(15 * (hour - 12)))))

default_noct == 45
default_temp_coeff == Lit(-28, 10000)

calculate_module_temperature(ambient_temp, irradiance, noct) ==
    FAdd(ambient_temp, FDiv(FMul(FFromInt(noct - 20), irradiance), FFromInt(800)))

calculate_power_output(irradiance, module_temp, module_power, temp_coeff) ==
    FMul(FMul(module_power, FDiv(irradiance, FFromInt(1000))),
         FAdd(FFromInt(1), FMul(temp_coeff, FSub(module_temp, FFromInt(25)))))

PerformanceRatioOf(ratio) ==
    IF ratio.status = "raised" THEN ratio
    ELSE Returned(FMul(ratio.value, FFromInt(100)))

\* variant: the ratio taken without looking at the divisor
PerformanceRatioUnguarded(actual_energy, theoretical_energy) ==
    PerformanceRatioOf(PyTrueDiv(actual_energy, theoretical_energy))

\* an outcome: the guard keeps the division from a zero (or negative) divisor
calculate_performance_ratio(actual_energy, theoretical_energy) ==
    IF FLt(FZero, theoretical_energy)
    THEN PerformanceRatioOf(PyTrueDiv(actual_energy, theoretical_energy))
    ELSE Returned(FZero)

calculate_capacity_factor(actual_energy, rated_capacity, hours) ==
    FMul(FDiv(actual_energy, FMul(rated_capacity, hours)), FFromInt(100))

calculate_specific_yield(energy_output, installed_capacity) ==
    FDiv(energy_output, installed_capacity)

days_in_month == <<31, 28, 31, 30, 31, 30, 31, 31, 30, 31, 30, 31>>
\* variant: the day taken from the following month
AvgDayOfNextMonth(month_index) == 15 + (((month_index + 1) % 12) * 30)

avg_day(month_index) == 15 + (month_index * 30)
ground_coverage_ratio == Lit(5257, 100)

\* the record a month's computation returns; the groups of fixed ratings
\* (topography, string combiner, transformer, station, electrical, civil) and
\* the site coordinates are left out
MonthlyRecord(cfg, b, poa_irradiance, module_temp, module_power, total_dc_power, inverter_efficiency, total_ac_power, total_energy) ==
    [horizon        |-> [impact_factor |->
                            IF FLt(b.solar_elevation, FFromInt(10)) THEN 80 ELSE 100],
     solar_resource |-> [ghi              |-> b.monthly_ghi,
                         poa_irradiance   |-> FMul(poa_irradiance, FFromInt(b.days)),
                         solar_elevation  |-> b.solar_elevation,
                         ambient_temp     |-> b.monthly_temp,
                         module_temp      |-> module_temp,
                         irradiance_ratio |->
                            IF FLt(FZero, b.daily_ghi)
                            THEN FMul(FDiv(poa_irradiance, b.daily_ghi), FFromInt(100))
                            ELSE FZero],
     pv_modules     |-> [module_efficiency   |-> cfg.pv_modules.efficiency,
                         module_power_output |-> module_power,
                         total_dc_power      |-> total_dc_power,
                         temperature_losses  |->
                            FMul(FSub(module_temp, FFromInt(25)), Lit(28, 100))],
     fixed_structure |-> [shading_losses |->
                            calculate_shading_losses(ground_coverage_ratio,
                                                     b.solar_elevation)],
     inverter       |-> [efficiency   |-> FMul(inverter_efficiency, FFromInt(100)),
                         loading_ratio |->
                            FMul(FDiv(total_dc_power,
                                      FMul(cfg.inverters.rated_power,
                                           FFromInt(cfg.inverters.quantity))),
                                 FFromInt(100)),
                         total_ac_power |-> total_ac_power,
                         conversion_losses |->
                            FMul(FSub(FFromInt(1), inverter_efficiency), FFromInt(100))],
     overall        |-> [total_energy_output |-> total_energy,
                         capacity_factor |->
                            calculate_capacity_factor(total_energy, cfg.rated_power_ac,
                                                      FFromInt(24 * b.days)),
                         specific_yield |->
                            calculate_specific_yield(
                                FMul(total_energy, FFromInt(1000)),
                                FMul(cfg.peak_power_dc, FFromInt(1000))),
                         performance_ratio |->
                            calculate_performance_ratio(
                                total_energy,
                                FDiv(FMul(FMul(b.monthly_ghi, cfg.peak_power_dc),
                                          FFromInt(1000)),
                                     FFromInt(1000))).value,
                         availability |-> Lit(980, 10),
                         overall_efficiency |->
                            FMul(FDiv(total_energy,
                                      FMul(FMul(b.monthly_ghi, cfg.total_area),
                                           FFromInt(10))),
                                 FFromInt(100))]]

\* overall system performance: the energy of the month in MWh
MonthlyEnergy(cfg, b, poa_irradiance, module_temp, module_power, total_dc_power, inverter_efficiency, total_ac_power) ==
    MonthlyRecord(cfg, b, poa_irradiance, module_temp, module_power, total_dc_power,
                  inverter_efficiency, total_ac_power,
                  FDiv(FMul(FMul(total_ac_power, FFromInt(24)), FFromInt(b.days)),
                       FFromInt(1000)))

\* inverter performance
\* variant: the shading loss taken off the power path
MonthlyAcPowerShaded(cfg, b, poa_irradiance, module_temp, module_power, total_dc_power, inverter_efficiency) ==
    MonthlyEnergy(cfg, b, poa_irradiance, module_temp, module_power, total_dc_power,
                  inverter_efficiency,
                  FMul(FMul(total_dc_power, inverter_efficiency),
                       FSub(FFromInt(1),
                            FDiv(calculate_shading_losses(ground_coverage_ratio,
                                                          b.solar_elevation),
                                 FFromInt(100)))))

MonthlyAcPower(cfg, b, poa_irradiance, module_temp, module_power, total_dc_power, inverter_efficiency) ==
    MonthlyEnergy(cfg, b, poa_irradiance, module_temp, module_power, total_dc_power,
                  inverter_efficiency, FMul(total_dc_power, inverter_efficiency))

MonthlyInverter(cfg, b, poa_irradiance, module_temp, module_power, total_dc_power) ==
    MonthlyAcPower(cfg, b, poa_irradiance, module_temp, module_power, total_dc_power,
                   calculate_inverter_efficiency(total_dc_power,
                                                 cfg.inverters.rated_power).value)

\* PV module performance
MonthlyDcPower(cfg, b, poa_irradiance, module_temp, module_power) ==
    MonthlyInverter(cfg, b, poa_irradiance, module_temp, module_power,
                    FDiv(FMul(module_power, FFromInt(cfg.pv_modules.quantity)),
                         FFromInt(1000)))

MonthlyModulePower(cfg, b, poa_irradiance, module_temp) ==
    MonthlyDcPower(cfg, b, poa_irradiance, module_temp,
                   calculate_power_output(poa_irradiance, module_temp,
                                          cfg.pv_modules.peak_power, default_temp_coeff))

MonthlyModuleTemp(cfg, b, poa_irradiance) ==
    MonthlyModulePower(cfg, b, poa_irradiance,
                       calculate_module_temperature(b.monthly_temp, poa_irradiance,
                                                    default_noct))

\* solar resource
MonthlyResource(cfg, b) ==
    MonthlyModuleTemp(cfg, b,
                      calculate_irradiance_on_tilted_surface(
                          b.daily_ghi, cfg.tilt_angle, cfg.azimuth_angle,
                          b.solar_elevation, b.solar_azimuth))

\* base values of the month, its daily average and the noon solar position
MonthlyBase(cfg, monthly_ghi, monthly_temp, days, position) ==
    MonthlyResource(cfg,
                    [monthly_ghi |-> monthly_ghi, monthly_temp |-> monthly_temp,
                     days |-> days, daily_ghi |-> FDiv(monthly_ghi, FFromInt(days)),
                     solar_elevation |-> position[1], solar_azimuth |-> position[2]])

MonthlyMetricsOf(month_index, cfg) ==
    MonthlyBase(cfg, cfg.monthly_ghi[month_index + 1], cfg.monthly_temp[month_index + 1],
                days_in_month[month_index + 1],
                calculate_solar_position(avg_day(month_index),
                                         cfg.location.latitude, 12))

\* the records under the configuration as written in the source, computed once
MonthlyTable == [k \in 0..11 |-> MonthlyMetricsOf(k, PROJECT_CONFIG)]

\* variant: a month's energy degraded by the number of months computed before it
MonthlyMetricsCarryOver(month_index) ==
    [MonthlyTable[month_index] EXCEPT !.overall.total_energy_output =
        FMul(@, FSub(FFromInt(1),
                     FMul(Lit(5, 1000), FFromInt(Cardinality(DOMAIN all_metrics)))))]

\* config = PROJECT_CONFIG: the function reads the module's dictionary
calculate_monthly_metrics(month_index) ==
    IF config = PROJECT_CONFIG THEN MonthlyTable[month_index]
    ELSE MonthlyMetricsOf(month_index, config)

\* sum(values) of a list of floats: added left to right, starting from 0
RECURSIVE PySumFrom(_, _)
PySumFrom(values, k) ==
    IF k = 0 THEN FZero ELSE FAdd(PySumFrom(values, k - 1), values[k])
PySum(values) == PySumFrom(values, Len(values))

\* [all_metrics[i]["overall"][key] for i in range(12)]
OverallColumn(metrics, key) == [k \in 1..12 |-> metrics[k - 1].overall[key]]

\* variant: the mean weighted by the days of each month
DayWeightedAverage(values) ==
    FDiv(PySum([k \in 1..12 |-> FMul(values[k], FFromInt(days_in_month[k]))]),
         FFromInt(365))

AnnualAverage(values) == FDiv(PySum(values), FFromInt(12))

\* the Annual Summary of the dashboard
AnnualSummary(metrics) ==
    [total_annual_energy   |-> PySum(OverallColumn(metrics, "total_energy_output")),
     avg_capacity_factor   |-> AnnualAverage(OverallColumn(metrics, "capacity_factor")),
     avg_performance_ratio |-> AnnualAverage(OverallColumn(metrics, "performance_ratio")),
     availability          |-> metrics[0].overall.availability]

\* ===========================================================================
\* The state machine: a caller evaluates one function on its arguments; the
\* dashboard script runs again whenever a slider is moved.
\* ===========================================================================
\* sampled inputs of the function calls
MaxAcTenths == 400
MaxUnits == 8
MaxRatioPct == 30
MaxPowerSteps == 12
MaxLoadingPct == 150

AcTenths == {<<k, 10>> : k \in 1..MaxAcTenths}
\* whole multiples of the station capacity (6.485 MW) and of three inverter
\* shares (3 * 38.9 / 12 = 9.725 MW), where the ceilings are exact
AcUnitMultiples ==
    {<<j * 6485, 1000>> : j \in 1..MaxUnits} \cup {<<j * 9725, 1000>> : j \in 1..MaxUnits}
EquipmentAcs == AcTenths \cup AcUnitMultiples
PowerInputs == {<<5 * k, 10>> : k \in 0..MaxPowerSteps}
RatioInputs == {<<c, 100>> : c \in (0 - MaxRatioPct)..MaxRatioPct}
DcAcRatioInputs == {<<c, 100>> : c \in {-130, -100, 0, 100, 130}}

\* irradiance on the tilted surface: GHI, angles in degrees
GhiInputs == {<<-50, 10>>, <<0, 1>>, <<9, 10>>, <<555, 100>>, <<1000, 1>>}
TiltInputs == {<<0, 1>>, <<18, 1>>, <<45, 1>>, <<90, 1>>}
SurfaceAzimuthInputs == {<<0, 1>>, <<90, 1>>}
SolarAzimuthInputs == {<<-180, 1>>, <<-90, 1>>, <<0, 1>>, <<45, 1>>, <<90, 1>>, <<180, 1>>}
PoaElevationInputs ==
    {<<-90, 1>>, <<-45, 1>>, <<-1, 1>>, <<-5, 10>>, <<0, 1>>, <<5, 10>>, <<1, 1>>,
     <<5, 1>>, <<30, 1>>, <<60, 1>>, <<90, 1>>}

\* shading: ground coverage ratio in percent, elevation in degrees
GcrInputs == {<<0, 1>>, <<1000, 100>>, <<5257, 100>>, <<10000, 100>>}
ShadingElevationInputs ==
    {<<k, 1>> : k \in 1..90}
        \cup {<<-90, 1>>, <<-1, 1>>, <<0, 1>>, <<5, 10>>, <<15, 10>>, <<125, 10>>,
              <<2345, 100>>, <<895, 10>>}

\* performance ratio: energies in MWh
ActualEnergyInputs == {<<0, 1>>, <<-25, 10>>, <<3933, 100>>, <<500, 10>>, <<16190, 10>>}
TheoreticalEnergyInputs ==
    {<<-5, 1>>, <<0, 1>>, <<1, 10>>, <<3, 1>>, <<14218, 10>>, <<2000, 1>>}

\* range(12)
MonthIndices == 0..11

\* inverter loading: DC power as a multiple n / 100000 of the rated power, every
\* whole percent up to MaxLoadingPct and the neighbours of the band boundaries
LoadingInputs ==
    {1000 * k : k \in 0..MaxLoadingPct}
        \cup {b + o : b \in {10000, 20000, 50000, 75000, 100000}, o \in {-1, 1}}
        \cup {-1000, 1}
\* <<dc_power, rated_power>> for the rated powers 1 and 3600 (the inverter's kW)
InverterInputs ==
    {<<<<n, 100000>>, <<1, 1>>>> : n \in LoadingInputs}
        \cup {<<<<36 * n, 1000>>, <<3600, 1>>>> : n \in LoadingInputs}

Call(fn, args) == [fn |-> fn, args |-> args]

Init ==
    /\ ret = Pending
    /\ sizing = <<>>
    /\ history = [first |-> <<>>, others |-> FALSE]
    /\ config = PROJECT_CONFIG
    /\ all_metrics = <<>>
    /\ \/ call = Call("create_solar_calculator", slider_defaults)
       \/ \E a \in AcTenths : call = Call("calculate_module_count", [ac_capacity_mw |-> a])
       \/ \E a \in EquipmentAcs :
            \E f \in {"calculate_inverter_count", "calculate_transformer_count",
                      "calculate_power_station_count"} :
                call = Call(f, [ac_capacity_mw |-> a])
       \/ \E p \in PowerInputs, c \in RatioInputs :
            call = Call("calculate_solar_capacity_needed",
                        [total_power_mw |-> p, capacity_factor |-> c])
       \/ \E a \in PowerInputs, r \in DcAcRatioInputs :
            call = Call("calculate_dc_capacity", [ac_capacity_mw |-> a, dc_ac_ratio |-> r])
       \/ \E g \in GhiInputs, t \in TiltInputs, sa \in SurfaceAzimuthInputs,
             el \in PoaElevationInputs, az \in SolarAzimuthInputs :
            call = Call("calculate_irradiance_on_tilted_surface",
                        [ghi |-> g, tilt_angle |-> t, surface_azimuth |-> sa,
                         solar_elevation |-> el, solar_azimuth |-> az])
       \/ \E g \in GcrInputs, el \in ShadingElevationInputs :
            call = Call("calculate_shading_losses", [gcr |-> g, solar_elevation |-> el])
       \/ \E p \in InverterInputs :
            call = Call("calculate_inverter_efficiency",
                        [dc_power |-> p[1], rated_power |-> p[2]])
       \/ \E a \in ActualEnergyInputs, t \in TheoreticalEnergyInputs :
            call = Call("calculate_performance_ratio",
                        [actual_energy |-> a, theoretical_energy |-> t])
       \/ \E m \in MonthIndices :
            call = Call("calculate_monthly_metrics", [month_index |-> m])
       \/ call = Call("create_dashboard", <<>>)

\* the script runs top to bottom on the current slider values
ScriptRun ==
    /\ call.fn = "create_solar_calculator"
    /\ ret.status = "pending"
    /\ ret' = create_solar_calculator(call.args)
    /\ sizing' = IF ret'.status = "returned" THEN <<ret'.value>> ELSE <<>>
    /\ history' = IF Len(history.first) = 0
                  THEN [first |-> <<[args |-> call.args, ret |-> ret']>>, others |-> FALSE]
                  ELSE IF call.args # history.first[1].args
                  THEN [history EXCEPT !.others = TRUE]
                  ELSE history
    /\ UNCHANGED <<call, config, all_metrics>>

\* the user moves one slider: the script is run again from the top
SliderChange ==
    /\ call.fn = "create_solar_calculator"
    /\ ret.status # "pending"
    /\ \/ \E v \in dc_capacity_slider \ {call.args.dc_capacity} :
            call' = [call EXCEPT !.args.dc_capacity = v]
       \/ \E v \in pue_slider \ {call.args.pue} :
            call' = [call EXCEPT !.args.pue = v]
       \/ \E v \in capacity_factor_slider \ {call.args.capacity_factor} :
            call' = [call EXCEPT !.args.capacity_factor = v]
    /\ ret' = Pending
    /\ sizing' = <<>>
    /\ UNCHANGED <<history, config, all_metrics>>

CallModuleCount ==
    /\ call.fn = "calculate_module_count"
    /\ ret.status = "pending"
    /\ ret' = Returned(calculate_module_count(Arg(call.args.ac_capacity_mw)))
    /\ UNCHANGED <<call, sizing, history, config, all_metrics>>

CallInverterCount ==
    /\ call.fn = "calculate_inverter_count"
    /\ ret.status = "pending"
    /\ ret' = Returned(calculate_inverter_count(Arg(call.args.ac_capacity_mw)))
    /\ UNCHANGED <<call, sizing, history, config, all_metrics>>

CallTransformerCount ==
    /\ call.fn = "calculate_transformer_count"
    /\ ret.status = "pending"
    /\ ret' = Returned(calculate_transformer_count(Arg(call.args.ac_capacity_mw),
                                                  default_transformer_mva))
    /\ UNCHANGED <<call, sizing, history, config, all_metrics>>

CallPowerStationCount ==
    /\ call.fn = "calculate_power_station_count"
    /\ ret.status = "pending"
    /\ ret' = Returned(calculate_power_station_count(Arg(call.args.ac_capacity_mw),
                                                    default_station_capacity_mw))
    /\ UNCHANGED <<call, sizing, history, config, all_metrics>>

CallSolarCapacityNeeded ==
    /\ call.fn = "calculate_solar_capacity_needed"
    /\ ret.status = "pending"
    /\ ret' = calculate_solar_capacity_needed(Arg(call.args.total_power_mw),
                                            Arg(call.args.capacity_factor))
    /\ UNCHANGED <<call, sizing, history, config, all_metrics>>

CallDcCapacity ==
    /\ call.fn = "calculate_dc_capacity"
    /\ ret.status = "pending"
    /\ ret' = Returned(calculate_dc_capacity(Arg(call.args.ac_capacity_mw),
                                           Arg(call.args.dc_ac_ratio)))
    /\ UNCHANGED <<call, sizing, history, config, all_metrics>>

CallIrradianceOnTiltedSurface ==
    /\ call.fn = "calculate_irradiance_on_tilted_surface"
    /\ ret.status = "pending"
    /\ ret' = Returned(calculate_irradiance_on_tilted_surface(
                   Arg(call.args.ghi), Arg(call.args.tilt_angle),
                   Arg(call.args.surface_azimuth), Arg(call.args.solar_elevation),
                   Arg(call.args.solar_azimuth)))
    /\ UNCHANGED <<call, sizing, history, config, all_metrics>>

CallShadingLosses ==
    /\ call.fn = "calculate_shading_losses"
    /\ ret.status = "pending"
    /\ ret' = Returned(calculate_shading_losses(Arg(call.args.gcr),
                                              Arg(call.args.solar_elevation)))
    /\ UNCHANGED <<call, sizing, history, config, all_metrics>>

CallInverterEfficiency ==
    /\ call.fn = "calculate_inverter_efficiency"
    /\ ret.status = "pending"
    /\ ret' = calculate_inverter_efficiency(Arg(call.args.dc_power),
                                          Arg(call.args.rated_power))
    /\ UNCHANGED <<call, sizing, history, config, all_metrics>>

CallPerformanceRatio ==
    /\ call.fn = "calculate_performance_ratio"
    /\ ret.status = "pending"
    /\ ret' = calculate_performance_ratio(Arg(call.args.actual_energy),
                                          Arg(call.args.theoretical_energy))
    /\ UNCHANGED <<call, sizing, history, config, all_metrics>>

\* a caller computes one month and keeps the record
CallMonthlyMetrics ==
    /\ call.fn = "calculate_monthly_metrics"
    /\ ret.status = "pending"
    /\ ret' = Returned(calculate_monthly_metrics(call.args.month_index))
    /\ all_metrics' = (call.args.month_index :> ret'.value) @@ all_metrics
    /\ UNCHANGED <<call, sizing, history, config>>

\* ... and goes on with any month it has not computed yet
NextMonthlyCall ==
    /\ call.fn = "calculate_monthly_metrics"
    /\ ret.status # "pending"
    /\ \E m \in MonthIndices \ DOMAIN all_metrics :
          call' = Call("calculate_monthly_metrics", [month_index |-> m])
    /\ ret' = Pending
    /\ UNCHANGED <<sizing, history, config, all_metrics>>

\* the user turns from the sizing calculator to the analysis dashboard
OpenDashboard ==
    /\ call.fn = "create_solar_calculator"
    /\ ret.status = "returned"
    /\ call' = Call("create_dashboard", <<>>)
    /\ ret' = Pending
    /\ all_metrics' = <<>>
    /\ UNCHANGED <<sizing, history, config>>

\* create_dashboard: one iteration of "for i in range(12)"
DashboardLoop ==
    /\ call.fn = "create_dashboard"
    /\ ret.status = "pending"
    /\ Cardinality(DOMAIN all_metrics) < 12
    /\ all_metrics' = (Cardinality(DOMAIN all_metrics)
                          :> calculate_monthly_metrics(Cardinality(DOMAIN all_metrics)))
                      @@ all_metrics
    /\ UNCHANGED <<call, ret, sizing, history, config>>

\* create_dashboard: the Annual Summary, after the loop
DashboardSummary ==
    /\ call.fn = "create_dashboard"
    /\ ret.status = "pending"
    /\ Cardinality(DOMAIN all_metrics) = 12
    /\ ret' = Returned(AnnualSummary(all_metrics))
    /\ UNCHANGED <<call, sizing, history, config, all_metrics>>

Next ==
    \/ ScriptRun
    \/ SliderChange
    \/ CallModuleCount
    \/ CallInverterCount
    \/ CallTransformerCount
    \/ CallPowerStationCount
    \/ CallSolarCapacityNeeded
    \/ CallDcCapacity
    \/ CallIrradianceOnTiltedSurface
    \/ CallShadingLosses
    \/ CallInverterEfficiency
    \/ CallPerformanceRatio
    \/ CallMonthlyMetrics
    \/ NextMonthlyCall
    \/ OpenDashboard
    \/ DashboardLoop
    \/ DashboardSummary

Spec == Init /\ [][Next]_vars

\* ===========================================================================
\* Claims
\* ===========================================================================
Scenario == call.fn = "create_solar_calculator" /\ call.args = slider_defaults
Done(fn) == call.fn = fn /\ ret.status # "pending"

\* C1 (as stated): in the scenario load 5.0 MW, PUE 1.2, capacity factor 0.20 the
\* module count is 62,404.
C1_ModuleCount62404 ==
    (Scenario /\ ret.status # "pending")
        => (ret.status = "returned" /\ ret.value.module_count = 62404)

\* C1 (amended): in that scenario the solar AC capacity is 30.0 MWac and the
\* module count int(30.0 * 80912 / 38.9) is 62,400.
C1_ModuleCount62400 ==
    (Scenario /\ ret.status # "pending")
        => /\ ret.status = "returned"
           /\ ret.value.solar_ac_capacity = FFromInt(30)
           /\ ret.value.module_count = 62400

C1_Witness ==
    Scenario /\ ret.status = "returned" /\ ret.value.module_count = 62400

\* C2: in the same scenario total power is 6.0 MW, solar AC capacity 30.0 MWac,
\* solar DC capacity 39.0 MWdc, with 10 inverters and 5 transformers.
C2_ScenarioChain ==
    (Scenario /\ ret.status # "pending")
        => /\ ret.status = "returned"
           /\ ret.value.total_power = FFromInt(6)
           /\ ret.value.solar_ac_capacity = FFromInt(30)
           /\ ret.value.solar_dc_capacity = FFromInt(39)
           /\ ret.value.inverter_count = 10
           /\ ret.value.transformer_count = 5

C2_Witness ==
    Scenario /\ ret.status = "returned" /\ ret.value.transformer_count = 5
             /\ ret.value.solar_dc_capacity = FFromInt(39)

\* C3: the module count at the reference AC capacity 38.9 MWac is the reference
\* module count 80912.
C3_ReferenceRoundTrip ==
    (Done("calculate_module_count") /\ call.args.ac_capacity_mw = <<389, 10>>)
        => ret.value = PROJECT_REFERENCE.ca_pv_ed_modules

C3_Witness ==
    Done("calculate_module_count") /\ call.args.ac_capacity_mw = <<389, 10>>
        /\ ret.value = 80912

\* C4: the module count is monotonically non-decreasing in the AC capacity:
\* no larger capacity has a smaller count than the one just computed.
ModuleCountAt == [k \in 1..MaxAcTenths |-> calculate_module_count(Lit(k, 10))]
AcValueAt == [k \in 1..MaxAcTenths |-> Lit(k, 10)]

C4_ModuleCountMonotone ==
    Done("calculate_module_count")
        => \A k \in 1..MaxAcTenths :
              FLe(AcValueAt[call.args.ac_capacity_mw[1]], AcValueAt[k])
                  => ret.value <= ModuleCountAt[k]

C4_Witness ==
    /\ Done("calculate_module_count")
    /\ \E k \in 1..MaxAcTenths :
          /\ FLt(AcValueAt[call.args.ac_capacity_mw[1]], AcValueAt[k])
          /\ ret.value < ModuleCountAt[k]

\* C5: an equipment count never under-provisions and is the smallest such count:
\* with ac = n / d MW, count c units of capacity u cover ac (c * u >= ac) and
\* c - 1 units do not; u is 38.9 / 12 MW per inverter, 7.2 MVA per transformer
\* and 6.485 MW per power station. Both sides are compared as exact integers.
Covers(c, un, ud) ==
    LET n == call.args.ac_capacity_mw[1]
        d == call.args.ac_capacity_mw[2]
    IN  c * un * d >= n * ud

C5_CountIsCeiling(fn, un, ud) ==
    Done(fn) => (Covers(ret.value, un, ud) /\ ~Covers(ret.value - 1, un, ud))

C5_NeverUnderProvision ==
    /\ C5_CountIsCeiling("calculate_inverter_count", 389, 120)
    /\ C5_CountIsCeiling("calculate_transformer_count", 72, 10)
    /\ C5_CountIsCeiling("calculate_power_station_count", 6485, 1000)

\* a whole number of power stations: 3 * 6.485 MW needs 3 stations, not 4
C5_Witness ==
    /\ Done("calculate_power_station_count")
    /\ call.args.ac_capacity_mw = <<3 * 6485, 1000>>
    /\ ret.value = 3

\* C6: a zero capacity factor makes solar_ac_capacity fail with ZeroDivisionError;
\* no capacity is returned.
C6_ZeroCapacityFactorRaises ==
    (Done("calculate_solar_capacity_needed") /\ call.args.capacity_factor[1] = 0)
        => (ret.status = "raised" /\ ret.value = "ZeroDivisionError")

C6_Witness ==
    /\ Done("calculate_solar_capacity_needed")
    /\ call.args.capacity_factor[1] = 0
    /\ call.args.total_power_mw[1] > 0
    /\ ret.status = "raised"

\* C7 (as stated): a negative capacity factor or DC/AC ratio makes the sizing fail
\* with an error instead of returning a capacity.
C7_NegativeRatioFails ==
    /\ (Done("calculate_solar_capacity_needed") /\ call.args.capacity_factor[1] < 0)
          => ret.status = "raised"
    /\ (Done("calculate_dc_capacity") /\ call.args.dc_ac_ratio[1] < 0)
          => ret.status = "raised"

\* C8: the irradiance on the tilted surface is exactly 0 whenever the solar
\* elevation is at or below 0 degrees, and is never negative.
C8_PoaZeroBelowHorizon ==
    Done("calculate_irradiance_on_tilted_surface")
        => /\ call.args.solar_elevation[1] <= 0 => ret.value = FZero
           /\ FLe(FZero, ret.value)

\* the sun on the horizon, and a negative GHI floored at 0 with the sun up
C8_Witness ==
    /\ Done("calculate_irradiance_on_tilted_surface")
    /\ \/ call.args.solar_elevation[1] = 0 /\ call.args.ghi[1] > 0 /\ ret.value = FZero
       \/ call.args.solar_elevation[1] > 0 /\ call.args.ghi[1] > 0 /\ FLt(FZero, ret.value)

C8_WitnessFloor ==
    /\ Done("calculate_irradiance_on_tilted_surface")
    /\ call.args.solar_elevation[1] > 0 /\ call.args.ghi[1] < 0 /\ ret.value = FZero

\* C9: the inverter efficiency is a step function of the loading ratio
\* dc_power / rated_power with upper-inclusive bands: up to 0.10 it is 0.85, up to
\* 0.20 it is 0.92, up to 0.50 it is 0.96, up to 0.75 it is 0.98, up to 1.00 it is
\* 0.989 and above 1.00 it is 0.985. The ratio is compared as an exact fraction:
\* dc_power = n / d and rated_power = r give ratio <= p / 100 iff 100 n <= p d r.
LoadingAtMost(pct) ==
    100 * call.args.dc_power[1]
        <= pct * call.args.dc_power[2] * call.args.rated_power[1]

C9_Band ==
    IF LoadingAtMost(10) THEN Lit(85, 100)
    ELSE IF LoadingAtMost(20) THEN Lit(92, 100)
    ELSE IF LoadingAtMost(50) THEN Lit(96, 100)
    ELSE IF LoadingAtMost(75) THEN Lit(98, 100)
    ELSE IF LoadingAtMost(100) THEN Lit(989, 1000)
    ELSE Lit(985, 1000)

C9_InverterEfficiencySteps ==
    Done("calculate_inverter_efficiency")
        => (ret.status = "returned" /\ ret.value = C9_Band)

\* the boundary 0.10 itself, its neighbour 0.10001, and 1.0 and 1.5
C9_Witness ==
    /\ Done("calculate_inverter_efficiency")
    /\ call.args.rated_power = <<1, 1>>
    /\ \/ call.args.dc_power = <<10000, 100000>> /\ ret.value = Lit(85, 100)
       \/ call.args.dc_power = <<10001, 100000>> /\ ret.value = Lit(92, 100)

C9_WitnessFull ==
    /\ Done("calculate_inverter_efficiency")
    /\ call.args.rated_power = <<3600, 1>>
    /\ \/ call.args.dc_power = <<3600000, 1000>> /\ ret.value = Lit(989, 1000)
       \/ call.args.dc_power = <<5400000, 1000>> /\ ret.value = Lit(985, 1000)

\* C10: the shading loss is 100 whenever the solar elevation is at or below 0
\* degrees, and lies in [0, 100] for an elevation in (0, 90] and a ground coverage
\* ratio in [0, 100] percent.
C10_ShadingLossRange ==
    Done("calculate_shading_losses")
        => /\ call.args.solar_elevation[1] <= 0 => ret.value = FFromInt(100)
           /\ (/\ call.args.solar_elevation[1] > 0
               /\ call.args.solar_elevation[1] <= 90 * call.args.solar_elevation[2]
               /\ call.args.gcr[1] >= 0
               /\ call.args.gcr[1] <= 100 * call.args.gcr[2])
                 => (FLe(FZero, ret.value) /\ FLe(ret.value, FFromInt(100)))

\* a low sun where the rows shade each other completely: the factor is floored
C10_Witness ==
    /\ Done("calculate_shading_losses")
    /\ call.args.gcr = <<5257, 100>>
    /\ call.args.solar_elevation = <<10, 1>>
    /\ ret.value = FFromInt(100)

C10_WitnessPartial ==
    /\ Done("calculate_shading_losses")
    /\ call.args.gcr = <<5257, 100>>
    /\ call.args.solar_elevation = <<60, 1>>
    /\ FLt(FZero, ret.value) /\ FLt(ret.value, FFromInt(100))

\* the months whose records have been computed
Computed == DOMAIN all_metrics

\* the month whose record was computed last, if any: the month of the call that
\* returned, or in the dashboard the last one appended; the records computed
\* before it are still in all_metrics, unchanged
LatestMonth ==
    IF call.fn = "calculate_monthly_metrics" /\ ret.status = "returned"
    THEN {call.args.month_index}
    ELSE IF call.fn = "create_dashboard" /\ Computed # {}
    THEN {Cardinality(Computed) - 1}
    ELSE {}

\* C11 (as stated): each month's capacity factor and specific yield are derived
\* from its energy with the sizing result's solar_ac_capacity and
\* solar_dc_capacity as the rated bases.
C11_MetricsUseSizing ==
    Len(sizing) = 1 =>
        \A m \in LatestMonth :
            /\ all_metrics[m].overall.capacity_factor
                 = calculate_capacity_factor(all_metrics[m].overall.total_energy_output,
                                             sizing[1].solar_ac_capacity,
                                             FFromInt(24 * days_in_month[m + 1]))
            /\ all_metrics[m].overall.specific_yield
                 = calculate_specific_yield(
                       FMul(all_metrics[m].overall.total_energy_output, FFromInt(1000)),
                       FMul(sizing[1].solar_dc_capacity, FFromInt(1000)))

\* what the program does instead: the rated bases are the reference project's
\* 38.9 MWac and 50.6 MWdc, whatever the sizing
C11_MetricsUseReference ==
    \A m \in LatestMonth :
        /\ all_metrics[m].overall.capacity_factor
             = calculate_capacity_factor(all_metrics[m].overall.total_energy_output,
                                         Lit(389, 10),
                                         FFromInt(24 * days_in_month[m + 1]))
        /\ all_metrics[m].overall.specific_yield
             = calculate_specific_yield(
                   FMul(all_metrics[m].overall.total_energy_output, FFromInt(1000)),
                   FMul(Lit(506, 10), FFromInt(1000)))

\* a dashboard opened on a sizing of 30.0 MWac
C11_Witness ==
    /\ Len(sizing) = 1
    /\ sizing[1].solar_ac_capacity = FFromInt(30)
    /\ 0 \in Computed

C12_WitnessFirst ==
    /\ Done("calculate_monthly_metrics")
    /\ call.args.month_index = 0
    /\ Computed = {0}

\* C13: the annual energy is the sum of the twelve monthly energies, added in
\* month order, and the annual capacity factor and performance ratio are the
\* sums of the twelve monthly percentages divided by 12.
MonthlySum(key) ==
    FAdd(FAdd(FAdd(FAdd(FAdd(FAdd(FAdd(FAdd(FAdd(FAdd(FAdd(
        all_metrics[0].overall[key], all_metrics[1].overall[key]),
        all_metrics[2].overall[key]), all_metrics[3].overall[key]),
        all_metrics[4].overall[key]), all_metrics[5].overall[key]),
        all_metrics[6].overall[key]), all_metrics[7].overall[key]),
        all_metrics[8].overall[key]), all_metrics[9].overall[key]),
        all_metrics[10].overall[key]), all_metrics[11].overall[key])

C13_AnnualRollUp ==
    Done("create_dashboard")
        => /\ ret.value.total_annual_energy = MonthlySum("total_energy_output")
           /\ ret.value.avg_capacity_factor
                = FDiv(MonthlySum("capacity_factor"), FFromInt(12))
           /\ ret.value.avg_performance_ratio
                = FDiv(MonthlySum("performance_ratio"), FFromInt(12))

\* the summary of the reference project: 1619.0341911201856 MWh
C13_Witness ==
    /\ Done("create_dashboard")
    /\ FLt(Lit(16190, 10), ret.value.total_annual_energy)
    /\ FLt(ret.value.total_annual_energy, Lit(16191, 10))
    /\ FLt(Lit(47, 100), ret.value.avg_capacity_factor)
    /\ FLt(ret.value.avg_capacity_factor, Lit(475, 1000))

C15_ShadingNotApplied ==
    \A m \in LatestMonth :
        /\ all_metrics[m].inverter.total_ac_power
             = FMul(all_metrics[m].pv_modules.total_dc_power,
                    InverterEfficiencyAt(FDiv(all_metrics[m].pv_modules.total_dc_power,
                                              Lit(36000, 10))))
        /\ all_metrics[m].overall.total_energy_output
             = FDiv(FMul(FMul(all_metrics[m].inverter.total_ac_power, FFromInt(24)),
                         FFromInt(days_in_month[m + 1])),
                    FFromInt(1000))

\* January: a recorded shading loss of 100 percent and yet energy delivered
C15_Witness ==
    /\ 0 \in Computed
    /\ all_metrics[0].fixed_structure.shading_losses = FFromInt(100)
    /\ FLt(FZero, all_metrics[0].overall.total_energy_output)

\* C16: performance_ratio returns actual / theoretical * 100 for a positive
\* theoretical energy and 0, without raising, for a theoretical energy of 0.
C16_PerformanceRatio ==
    Done("calculate_performance_ratio")
        => /\ ret.status = "returned"
           /\ call.args.theoretical_energy[1] > 0
                => ret.value = FMul(FDiv(Arg(call.args.actual_energy),
                                         Arg(call.args.theoretical_energy)),
                                    FFromInt(100))
           /\ call.args.theoretical_energy[1] = 0 => ret.value = FZero
           /\ (call.args.actual_energy = <<500, 10>>
                 /\ call.args.theoretical_energy = <<2000, 1>>)
                => ret.value = Lit(25, 10)

C16_Witness ==
    /\ Done("calculate_performance_ratio")
    /\ call.args.theoretical_energy[1] = 0
    /\ call.args.actual_energy[1] > 0
    /\ ret = Returned(FZero)

\* C17 (as stated): in every monthly record the inverter efficiency is 100 times
\* the step-function efficiency of the band that holds the loading ratio of the
\* same record, loading_ratio / 100.
C17_InverterGroupConsistent ==
    \A m \in LatestMonth :
        all_metrics[m].inverter.efficiency
            = FMul(InverterEfficiencyAt(FDiv(all_metrics[m].inverter.loading_ratio,
                                             FFromInt(100))),
                   FFromInt(100))

\* C18: the mid-month day 15 + 30 m lies in month m of the non-leap calendar:
\* after the days of the months before it, not after the days up to and
\* including it, and within 1..365.
RECURSIVE DaysThrough(_)
DaysThrough(months) ==
    IF months = 0 THEN 0 ELSE DaysThrough(months - 1) + days_in_month[months]

InMonth(m) ==
    /\ DaysThrough(m) < avg_day(m)
    /\ avg_day(m) <= DaysThrough(m + 1)
    /\ avg_day(m) \in 1..365

C18_AvgDayInMonth ==
    /\ call.fn = "calculate_monthly_metrics" => InMonth(call.args.month_index)
    /\ \A m \in LatestMonth : InMonth(m)

\* December: day 345 of 335..365
C18_Witness ==
    /\ Done("calculate_monthly_metrics")
    /\ call.args.month_index = 11
    /\ avg_day(11) = 345
    /\ DaysThrough(11) = 334
====
